---- MODULE Spec2Model ----
(***************************************************************************)
(* Opportunity lifecycle engine of JobSearchOps: the stage transition      *)
(* engine (modules/workflow.py), the record store it writes through        *)
(* (models/opportunity.py) and the dashboard routes that drive it          *)
(* (web/routes.py).                                                        *)
(*                                                                         *)
(* Dates.  A calendar day is a day number.  date.isoformat() yields the    *)
(* TEXT stored in a column; it is modelled as the one-element tuple <<d>>, *)
(* and SQL NULL / Python None as the empty tuple <<>>, so that every       *)
(* nullable column holds a tuple and a stored date is never confused with  *)
(* the day number it was formatted from.  ISO dates compare as TEXT in     *)
(* calendar order, which is the order of the day numbers.                  *)
(***************************************************************************)
EXTENDS Integers, Sequences, FiniteSets, TLC

VARIABLES
    today,          \* date.today(), as a day number
    opportunities,  \* table opportunities: row id -> row (ids are 1..Len)
    contacts,       \* table contacts: row id -> row
    activity_log,   \* table activity_log, in insertion order
    last,           \* the request or call handled by the latest step, and its outcome
    nreq,           \* number of steps taken so far
    frames          \* the requests in progress: their position and local variables

vars == <<today, opportunities, contacts, activity_log, last, nreq, frames>>

----------------------------------------------------------------------------
(* Bounds of the exploration *)

MaxDay == 2
MaxRequests == 3
MaxCalls == 4
MaxOpps == 2
MaxContacts == 2

----------------------------------------------------------------------------
(* Nullable values *)

None == <<>>
Some(v) == <<v>>

\* Python truthiness of an optional string: None and "" are falsy.
Truthy(x) == x # None /\ x # Some("")

\* date.isoformat() / date.fromisoformat()
isoformat(d) == <<d>>
fromisoformat(t) == t[1]

\* date + timedelta(days=n)
timedelta(d, n) == d + n

----------------------------------------------------------------------------
(* modules/workflow.py: the transition table *)

STAGE_TRANSITIONS ==
    ( "Prospect"         :> <<"Find contact and send outreach", 0>> ) @@
    ( "Warm Lead"        :> <<"Follow up if no response in 3 days", 3>> ) @@
    ( "Applied"          :> <<"Follow up with contact; check for recruiter screen", 5>> ) @@
    ( "Recruiter Screen" :> <<"Send thank-you; await HM invite", 1>> ) @@
    ( "HM Interview"     :> <<"Send thank-you; prepare for loop", 1>> ) @@
    ( "Loop"             :> <<"Send thank-yous to all interviewers; await decision", 2>> ) @@
    ( "Offer Pending"    :> <<"Review offer; research comp benchmarks", 3>> )

calculate_next_action_NoFallback(stage) ==
    IF stage \in DOMAIN STAGE_TRANSITIONS
    THEN STAGE_TRANSITIONS[stage]
    ELSE STAGE_TRANSITIONS["Prospect"]

calculate_next_action_OffByOne(stage) ==
    IF stage \in DOMAIN STAGE_TRANSITIONS
    THEN <<STAGE_TRANSITIONS[stage][1], STAGE_TRANSITIONS[stage][2] + 1>>
    ELSE <<"Review and set next step", 7>>

calculate_next_action(stage) ==
    IF stage \in DOMAIN STAGE_TRANSITIONS
    THEN STAGE_TRANSITIONS[stage]
    ELSE <<"Review and set next step", 7>>

----------------------------------------------------------------------------
(* models/opportunity.py: rows and CRUD *)

\* The columns of a freshly inserted row that create_opportunity does not set.
Opportunity ==
    [ stage            |-> "Prospect",
      date_applied     |-> None,
      date_closed      |-> None,
      close_reason     |-> None,
      fit_score        |-> None,
      jd_raw           |-> None,
      next_action      |-> None,
      next_action_date |-> None,
      notes            |-> None,
      ai_fit_summary   |-> None,
      tailored_resume  |-> None,
      cover_letter     |-> None ]

\* INSERT INTO opportunities ...; returns <<table, lastrowid>>
create_opportunity(opps, kwargs) ==
    << Append(opps, [f \in DOMAIN Opportunity |->
                        IF f \in DOMAIN kwargs THEN kwargs[f] ELSE Opportunity[f]]),
       Len(opps) + 1 >>

\* SELECT * FROM opportunities WHERE id = ?; None when there is no such row
get_opportunity(opps, opp_id) ==
    IF opp_id \in DOMAIN opps THEN Some(opps[opp_id]) ELSE None

\* UPDATE opportunities SET k = ? ... WHERE id = ?: one statement, no row when
\* the id is absent, untouched when kwargs is empty.
update_opportunity(opps, opp_id, kwargs) ==
    IF DOMAIN kwargs = {} \/ opp_id \notin DOMAIN opps
    THEN opps
    ELSE [opps EXCEPT ![opp_id] =
            [f \in DOMAIN @ |-> IF f \in DOMAIN kwargs THEN kwargs[f] ELSE @[f]]]

----------------------------------------------------------------------------
(* models/activity.py: the activity log *)

\* INSERT INTO activity_log (activity_type, description, opportunity_id,
\* contact_id, metadata)
log_activity(log, activity_type, description, opportunity_id, contact_id, metadata) ==
    Append(log, [ activity_type  |-> activity_type,
                  description    |-> description,
                  opportunity_id |-> opportunity_id,
                  contact_id     |-> contact_id,
                  metadata       |-> metadata ])

----------------------------------------------------------------------------
(* Outcome of a call: the store after it, and the exception it raised *)

Ok(db) == [db |-> db, raised |-> None]
Raise(db, exc) == [db |-> db, raised |-> Some(exc)]

DB == [ opportunities |-> opportunities,
        contacts      |-> contacts,
        activity_log  |-> activity_log ]

----------------------------------------------------------------------------
(* modules/workflow.py: advance_stage *)

\* update_kwargs of advance_stage (lines 74-87)
update_kwargs_RestampApplied(old_stage, new_stage, close_reason, d) ==
    LET na == calculate_next_action(new_stage)
        base == [ stage            |-> new_stage,
                  next_action      |-> Some(na[1]),
                  next_action_date |-> isoformat(timedelta(d, na[2])) ]
        closed == IF new_stage = "Closed"
                  THEN [date_closed |-> isoformat(d)] @@
                       (IF Truthy(close_reason)
                        THEN [close_reason |-> close_reason] ELSE <<>>)
                  ELSE <<>>
        applied == IF new_stage = "Applied"
                   THEN [date_applied |-> isoformat(d)] ELSE <<>>
    IN  base @@ closed @@ applied

update_kwargs_NoAppliedStamp(old_stage, new_stage, close_reason, d) ==
    LET na == calculate_next_action(new_stage)
        base == [ stage            |-> new_stage,
                  next_action      |-> Some(na[1]),
                  next_action_date |-> isoformat(timedelta(d, na[2])) ]
        closed == IF new_stage = "Closed"
                  THEN [date_closed |-> isoformat(d)] @@
                       (IF Truthy(close_reason)
                        THEN [close_reason |-> close_reason] ELSE <<>>)
                  ELSE <<>>
    IN  base @@ closed

update_kwargs_ClearOnReopen(old_stage, new_stage, close_reason, d) ==
    LET na == calculate_next_action(new_stage)
        base == [ stage            |-> new_stage,
                  next_action      |-> Some(na[1]),
                  next_action_date |-> isoformat(timedelta(d, na[2])) ]
        closed == IF new_stage = "Closed"
                  THEN [date_closed |-> isoformat(d)] @@
                       (IF Truthy(close_reason)
                        THEN [close_reason |-> close_reason] ELSE <<>>)
                  ELSE [date_closed |-> None, close_reason |-> None]
        applied == IF new_stage = "Applied" /\ old_stage # "Applied"
                   THEN [date_applied |-> isoformat(d)] ELSE <<>>
    IN  base @@ closed @@ applied

update_kwargs(old_stage, new_stage, close_reason, d) ==
    LET na == calculate_next_action(new_stage)
        base == [ stage            |-> new_stage,
                  next_action      |-> Some(na[1]),
                  next_action_date |-> isoformat(timedelta(d, na[2])) ]
        closed == IF new_stage = "Closed"
                  THEN [date_closed |-> isoformat(d)] @@
                       (IF Truthy(close_reason)
                        THEN [close_reason |-> close_reason] ELSE <<>>)
                  ELSE <<>>
        applied == IF new_stage = "Applied" /\ old_stage # "Applied"
                   THEN [date_applied |-> isoformat(d)] ELSE <<>>
    IN  base @@ closed @@ applied

\* The "Stage Change" entry of advance_stage (lines 91-100): description,
\* opportunity reference and metadata.
stage_change_description(old_stage, new_stage, note) ==
    <<"Stage changed: ", old_stage, " -> ", new_stage>>
        \o (IF Truthy(note) THEN <<" | Note: ", note[1]>> ELSE <<>>)

stage_change_metadata_StaleDate(old_stage, new_stage, next_action_date, d) ==
    Some([ old_stage        |-> old_stage,
           new_stage        |-> new_stage,
           next_action_date |-> isoformat(d) ])

stage_change_metadata(old_stage, new_stage, next_action_date, d) ==
    Some([ old_stage        |-> old_stage,
           new_stage        |-> new_stage,
           next_action_date |-> next_action_date ])

advance_stage_CreateMissing(db, opportunity_id, new_stage, note, close_reason, d) ==
    LET kw == update_kwargs("Prospect", new_stage, close_reason, d)
    IN  Ok([db EXCEPT
            !.activity_log = log_activity(@, "Stage Change",
                stage_change_description("Prospect", new_stage, note),
                Some(opportunity_id), None,
                stage_change_metadata("Prospect", new_stage, kw.next_action_date, d))])

advance_stage_RewritesEntry(db, opportunity_id, new_stage, note, close_reason, d) ==
    LET opp == get_opportunity(db.opportunities, opportunity_id)
    IN  IF opp = None
        THEN Raise(db, "ValueError")
        ELSE
          LET old_stage == opp[1].stage
              kw == update_kwargs(old_stage, new_stage, close_reason, d)
              entry == [ activity_type  |-> "Stage Change",
                         description    |-> stage_change_description(old_stage, new_stage, note),
                         opportunity_id |-> Some(opportunity_id),
                         contact_id     |-> None,
                         metadata       |-> stage_change_metadata(old_stage, new_stage,
                                                                  kw.next_action_date, d) ]
              earlier == { k \in DOMAIN db.activity_log :
                             /\ db.activity_log[k].activity_type = "Stage Change"
                             /\ db.activity_log[k].opportunity_id = Some(opportunity_id) }
          IN  Ok([db EXCEPT
                  !.opportunities = update_opportunity(@, opportunity_id, kw),
                  !.activity_log =
                      IF earlier = {}
                      THEN Append(@, entry)
                      ELSE [@ EXCEPT ![CHOOSE k \in earlier : TRUE] = entry]])

advance_stage(db, opportunity_id, new_stage, note, close_reason, d) ==
    LET opp == get_opportunity(db.opportunities, opportunity_id)
    IN  IF opp = None
        THEN Raise(db, "ValueError")
        ELSE
          LET old_stage == opp[1].stage
              kw == update_kwargs(old_stage, new_stage, close_reason, d)
          IN  Ok([db EXCEPT
                  !.opportunities = update_opportunity(@, opportunity_id, kw),
                  !.activity_log = log_activity(@, "Stage Change",
                      stage_change_description(old_stage, new_stage, note),
                      Some(opportunity_id), None,
                      stage_change_metadata(old_stage, new_stage,
                                            kw.next_action_date, d))])

----------------------------------------------------------------------------
(* models/contact.py: rows and CRUD *)

\* The columns of a freshly inserted contact that create_contact does not set.
Contact ==
    [ full_name       |-> "",
      opportunity_id  |-> None,
      email           |-> None,
      outreach_day0   |-> None,
      outreach_day3   |-> None,
      outreach_day7   |-> None,
      response_status |-> "Pending" ]

create_contact(cs, kwargs) ==
    << Append(cs, [f \in DOMAIN Contact |->
                      IF f \in DOMAIN kwargs THEN kwargs[f] ELSE Contact[f]]),
       Len(cs) + 1 >>

get_contact(cs, contact_id) ==
    IF contact_id \in DOMAIN cs THEN Some(cs[contact_id]) ELSE None

update_contact(cs, contact_id, kwargs) ==
    IF DOMAIN kwargs = {} \/ contact_id \notin DOMAIN cs
    THEN cs
    ELSE [cs EXCEPT ![contact_id] =
            [f \in DOMAIN @ |-> IF f \in DOMAIN kwargs THEN kwargs[f] ELSE @[f]]]

----------------------------------------------------------------------------
(* Inputs *)

TableStages == DOMAIN STAGE_TRANSITIONS
Stages == TableStages \cup {"Closed", "On Hold"}

\* Arguments (new_stage, note, close_reason) given to advance_stage
AdvanceArgs ==
    { [new_stage |-> s, note |-> None, close_reason |-> None] : s \in Stages }
    \cup
    { [new_stage |-> "Closed",    note |-> None,             close_reason |-> Some("Accepted")],
      [new_stage |-> "Closed",    note |-> Some("declined"), close_reason |-> Some("Rejected")],
      [new_stage |-> "Closed",    note |-> None,             close_reason |-> Some("")],
      [new_stage |-> "Applied",   note |-> None,             close_reason |-> Some("Accepted")] }

NoArgs == [new_stage |-> "", note |-> None, close_reason |-> None]

----------------------------------------------------------------------------
(* The state after intake: one opportunity saved by add_job on day 0 and one
   contact added to it, with the two "Note Added" entries these wrote. *)

InitOpportunity ==
    [ Opportunity EXCEPT
        !.jd_raw           = Some("jd"),
        !.next_action      = Some(calculate_next_action("Prospect")[1]),
        !.next_action_date = isoformat(timedelta(0, calculate_next_action("Prospect")[2])) ]

InitContact ==
    [ Contact EXCEPT
        !.full_name      = "Pat",
        !.opportunity_id = Some(1),
        !.email          = Some("pat@example.com") ]

InitLog ==
    << [ activity_type  |-> "Note Added",
         description    |-> <<"Opportunity created via web UI">>,
         opportunity_id |-> Some(1),
         contact_id     |-> None,
         metadata       |-> None ],
       [ activity_type  |-> "Note Added",
         description    |-> <<"Contact added: ", "Pat", "Recruiter">>,
         opportunity_id |-> Some(1),
         contact_id     |-> Some(1),
         metadata       |-> None ] >>

Init ==
    /\ today = 0
    /\ opportunities = <<InitOpportunity>>
    /\ contacts = <<InitContact>>
    /\ activity_log = InitLog
    /\ last = [op |-> "init", id |-> 0, args |-> NoArgs, result |-> "ok"]
    /\ nreq = 0
    /\ frames = <<>>

\* One request form is enough for a row that does not exist.
OnRow(table, id, arg, args) ==
    id \in DOMAIN table \/ arg = CHOOSE a \in args : TRUE

\* Install the store a call left behind.
Commit(db) ==
    /\ opportunities' = db.opportunities
    /\ contacts' = db.contacts
    /\ activity_log' = db.activity_log

\* date.today() moves to the next day; the step counts against the bound.
NextDay ==
    /\ today < MaxDay
    /\ today' = today + 1
    /\ last' = [op |-> "tick", id |-> 0, args |-> NoArgs, result |-> "ok"]
    /\ nreq' = nreq + 1
    /\ UNCHANGED <<opportunities, contacts, activity_log, frames>>

----------------------------------------------------------------------------
(* The engine called directly: advance_stage(opportunity_id, new_stage, note,
   close_reason) on an existing id or on one past the end of the table. *)

CallAdvanceStage ==
    /\ nreq < MaxCalls
    /\ \E id \in 1..(Len(opportunities) + 1), a \in AdvanceArgs :
         /\ OnRow(opportunities, id, a, AdvanceArgs)
         /\ LET r == advance_stage(DB, id, a.new_stage, a.note, a.close_reason, today)
            IN  /\ Commit(r.db)
                /\ last' = [ op |-> "advance_stage", id |-> id, args |-> a,
                             result |-> IF r.raised = None THEN "ok" ELSE r.raised[1] ]
    /\ nreq' = nreq + 1
    /\ UNCHANGED <<today, frames>>

EngineTick ==
    /\ nreq < MaxCalls
    /\ NextDay

NextEngine == CallAdvanceStage \/ EngineTick

SpecEngine == Init /\ [][NextEngine]_vars

----------------------------------------------------------------------------
(* web/routes.py: the dashboard's mutating routes.  Each is a function from
   the store and the request to the store it leaves and the HTTP status. *)

Respond(db, status) == [db |-> db, status |-> status]

\* Flask turns an exception that escapes a view into a 500 response.
RespondCall(r, status) == Respond(r.db, IF r.raised = None THEN status ELSE "500")

\* The block shared by mark_outreach_sent (lines 82-88) and send_email_route
\* (lines 526-532): stamp day 0 once, and move a Prospect to Warm Lead.
first_outreach_NoDay0Guard(db, contact_id, c, note, d) ==
    LET db1 == [db EXCEPT !.contacts =
                    update_contact(@, contact_id, [outreach_day0 |-> isoformat(d)])]
        opp == IF c.opportunity_id # None
               THEN get_opportunity(db1.opportunities, c.opportunity_id[1])
               ELSE None
    IN  IF opp # None /\ opp[1].stage = "Prospect"
        THEN advance_stage(db1, c.opportunity_id[1], "Warm Lead", Some(note), None, d)
        ELSE Ok(db1)

first_outreach_AnyStage(db, contact_id, c, note, d) ==
    IF c.outreach_day0 = None
    THEN LET db1 == [db EXCEPT !.contacts =
                        update_contact(@, contact_id, [outreach_day0 |-> isoformat(d)])]
             opp == IF c.opportunity_id # None
                    THEN get_opportunity(db1.opportunities, c.opportunity_id[1])
                    ELSE None
         IN  IF opp # None
             THEN advance_stage(db1, c.opportunity_id[1], "Warm Lead", Some(note), None, d)
             ELSE Ok(db1)
    ELSE Ok(db)

first_outreach(db, contact_id, c, note, d) ==
    IF c.outreach_day0 = None
    THEN LET db1 == [db EXCEPT !.contacts =
                        update_contact(@, contact_id, [outreach_day0 |-> isoformat(d)])]
             opp == IF c.opportunity_id # None
                    THEN get_opportunity(db1.opportunities, c.opportunity_id[1])
                    ELSE None
         IN  IF opp # None /\ opp[1].stage = "Prospect"
             THEN advance_stage(db1, c.opportunity_id[1], "Warm Lead", Some(note), None, d)
             ELSE Ok(db1)
    ELSE Ok(db)

\* POST /contact/<id>/mark-outreach-sent
mark_outreach_sent(db, contact_id, d) ==
    LET contact == get_contact(db.contacts, contact_id)
    IN  IF contact = None
        THEN Respond(db, "404")
        ELSE
          LET c == contact[1]
              r == first_outreach(db, contact_id, c, "Outreach sent", d)
          IN  IF r.raised # None
              THEN Respond(r.db, "500")
              ELSE Respond([r.db EXCEPT !.activity_log =
                               log_activity(@, "Outreach Sent",
                                   <<"Outreach marked as sent to ", c.full_name>>,
                                   c.opportunity_id, Some(contact_id), None)],
                           "200")

\* POST /opportunity/<id>/advance
advance_opp(db, opp_id, form, d) ==
    IF form.new_stage # ""
    THEN RespondCall(
            advance_stage(db, opp_id, form.new_stage,
                          IF Truthy(form.note) THEN form.note ELSE None,
                          IF Truthy(form.close_reason) THEN form.close_reason ELSE None,
                          d),
            "302")
    ELSE Respond(db, "302")

\* The loop of bulk_advance (lines 210-215): a failing id is skipped.
RECURSIVE bulk_loop(_, _, _, _)
bulk_loop(db, opp_ids, form, d) ==
    IF opp_ids = <<>>
    THEN db
    ELSE bulk_loop(
            advance_stage(db, Head(opp_ids), form.new_stage,
                          IF Truthy(form.note) THEN form.note ELSE None,
                          IF Truthy(form.close_reason) THEN form.close_reason ELSE None,
                          d).db,
            Tail(opp_ids), form, d)

\* POST /opportunities/bulk-advance
bulk_advance(db, opp_ids, form, d) ==
    IF opp_ids = <<>> \/ form.new_stage = ""
    THEN Respond(db, "400")
    ELSE Respond(bulk_loop(db, opp_ids, form, d), "200")

add_note_SetsNextAction(db, opp_id, note_text, d) ==
    IF note_text # ""
    THEN LET opp == get_opportunity(db.opportunities, opp_id)
         IN  IF opp = None
             THEN Respond(db, "500")
             ELSE
               LET existing == IF opp[1].notes = None THEN <<>> ELSE opp[1].notes[1]
                   new_notes == existing \o <<isoformat(d), note_text>>
               IN  Respond([db EXCEPT
                        !.opportunities = update_opportunity(@, opp_id,
                                              [notes |-> Some(new_notes),
                                               next_action |-> Some(note_text)]),
                        !.activity_log = log_activity(@, "Note Added", <<note_text>>,
                                              Some(opp_id), None, None)],
                      "302")
    ELSE Respond(db, "302")

\* POST /opportunity/<id>/note
add_note(db, opp_id, note_text, d) ==
    IF note_text # ""
    THEN LET opp == get_opportunity(db.opportunities, opp_id)
         IN  IF opp = None
             THEN Respond(db, "500")
             ELSE
               LET existing == IF opp[1].notes = None THEN <<>> ELSE opp[1].notes[1]
                   new_notes == existing \o <<isoformat(d), note_text>>
               IN  Respond([db EXCEPT
                        !.opportunities = update_opportunity(@, opp_id,
                                              [notes |-> Some(new_notes)]),
                        !.activity_log = log_activity(@, "Note Added", <<note_text>>,
                                              Some(opp_id), None, None)],
                      "302")
    ELSE Respond(db, "302")

\* POST /contact/<id>/mark-response.  The entry written for an id with no
\* contact row names that id; fk says whether the store accepts it.
mark_response(db, contact_id, status, fk) ==
    LET db1 == [db EXCEPT !.contacts =
                    update_contact(@, contact_id, [response_status |-> status])]
        contact == get_contact(db1.contacts, contact_id)
    IN  IF contact = None /\ fk
        THEN Respond(db1, "500")
        ELSE Respond([db1 EXCEPT !.activity_log =
                        log_activity(@, "Response Received",
                            <<"Response status updated to: ", status>>,
                            IF contact # None THEN contact[1].opportunity_id ELSE None,
                            Some(contact_id), None)],
                     "302")

\* POST /opportunity/<id>/add-contact
add_contact_route(db, opp_id, full_name, email) ==
    IF get_opportunity(db.opportunities, opp_id) = None
    THEN Respond(db, "404")
    ELSE IF full_name = ""
    THEN Respond(db, "302")
    ELSE
      LET made == create_contact(db.contacts,
                     [full_name |-> full_name, opportunity_id |-> Some(opp_id),
                      email |-> email])
      IN  Respond([db EXCEPT
                     !.contacts = made[1],
                     !.activity_log = log_activity(@, "Note Added",
                          <<"Contact added: ", full_name, "Recruiter">>,
                          Some(opp_id), Some(made[2]), None)],
                  "302")

\* POST /add-job, step "save"
add_job(db, company, role_title, jd_raw, d) ==
    IF company = "" \/ role_title = ""
    THEN Respond(db, "200")
    ELSE
      LET na == calculate_next_action("Prospect")
          made == create_opportunity(db.opportunities,
                     [ stage            |-> "Prospect",
                       jd_raw           |-> jd_raw,
                       next_action      |-> Some(na[1]),
                       next_action_date |-> isoformat(timedelta(d, na[2])) ])
      IN  Respond([db EXCEPT
                     !.opportunities = made[1],
                     !.activity_log = log_activity(@, "Note Added",
                          <<"Opportunity created via web UI">>,
                          Some(made[2]), None, None)],
                  "302")

send_email_route_SendsLast(db, contact_id, form, smtp_ok, d) ==
    LET contact == get_contact(db.contacts, contact_id)
    IN  IF contact = None
        THEN Respond(db, "404")
        ELSE IF ~Truthy(contact[1].email)
        THEN Respond(db, "400")
        ELSE IF form.subject = "" \/ form.body = ""
        THEN Respond(db, "400")
        ELSE
          LET c == contact[1]
              r == IF form.email_type = "outreach"
                   THEN first_outreach(db, contact_id, c, "Outreach email sent", d)
                   ELSE Ok(db)
          IN  IF r.raised # None \/ ~smtp_ok
              THEN Respond(r.db, "500")
              ELSE Respond([r.db EXCEPT !.activity_log =
                               log_activity(@,
                                   IF form.email_type = "outreach"
                                   THEN "Outreach Sent" ELSE "Follow-Up Sent",
                                   <<"Email sent to ", c.full_name, c.email[1], form.subject>>,
                                   c.opportunity_id, Some(contact_id), None)],
                           "200")

\* POST /contact/<id>/send-email.  smtp_ok says whether the relay took the
\* message (modules/mailer.py send_email raises otherwise).
send_email_route(db, contact_id, form, smtp_ok, d) ==
    LET contact == get_contact(db.contacts, contact_id)
    IN  IF contact = None
        THEN Respond(db, "404")
        ELSE IF ~Truthy(contact[1].email)
        THEN Respond(db, "400")
        ELSE IF form.subject = "" \/ form.body = ""
        THEN Respond(db, "400")
        ELSE IF ~smtp_ok
        THEN Respond(db, "500")
        ELSE
          LET c == contact[1]
              r == IF form.email_type = "outreach"
                   THEN first_outreach(db, contact_id, c, "Outreach email sent", d)
                   ELSE Ok(db)
          IN  IF r.raised # None
              THEN Respond(r.db, "500")
              ELSE Respond([r.db EXCEPT !.activity_log =
                               log_activity(@,
                                   IF form.email_type = "outreach"
                                   THEN "Outreach Sent" ELSE "Follow-Up Sent",
                                   <<"Email sent to ", c.full_name, c.email[1], form.subject>>,
                                   c.opportunity_id, Some(contact_id), None)],
                           "200")

mark_followup_WeekThreshold(db, contact_id, d) ==
    LET contact == get_contact(db.contacts, contact_id)
    IN  IF contact = None \/ contact[1].outreach_day0 = None
        THEN Respond(db, "302")
        ELSE
          LET c == contact[1]
              days_since == d - fromisoformat(c.outreach_day0)
              slot7 == days_since > 7
          IN  Respond([db EXCEPT
                 !.contacts = update_contact(@, contact_id,
                                 IF slot7 THEN [outreach_day7 |-> isoformat(d)]
                                          ELSE [outreach_day3 |-> isoformat(d)]),
                 !.activity_log = log_activity(@, "Follow-Up Sent",
                                 <<IF slot7 THEN "Day 7 follow-up sent to "
                                            ELSE "Day 3 follow-up sent to ", c.full_name>>,
                                 c.opportunity_id, Some(contact_id), None)],
               "302")

mark_followup_Day7First(db, contact_id, d) ==
    LET contact == get_contact(db.contacts, contact_id)
    IN  IF contact = None \/ contact[1].outreach_day0 = None
        THEN Respond(db, "302")
        ELSE
          LET c == contact[1]
              days_since == d - fromisoformat(c.outreach_day0)
              slot7 == days_since < 6
          IN  Respond([db EXCEPT
                 !.contacts = update_contact(@, contact_id,
                                 IF slot7 THEN [outreach_day7 |-> isoformat(d)]
                                          ELSE [outreach_day3 |-> isoformat(d)]),
                 !.activity_log = log_activity(@, "Follow-Up Sent",
                                 <<IF slot7 THEN "Day 7 follow-up sent to "
                                            ELSE "Day 3 follow-up sent to ", c.full_name>>,
                                 c.opportunity_id, Some(contact_id), None)],
               "302")

\* POST /contact/<id>/mark-followup
mark_followup(db, contact_id, d) ==
    LET contact == get_contact(db.contacts, contact_id)
    IN  IF contact = None \/ contact[1].outreach_day0 = None
        THEN Respond(db, "302")
        ELSE
          LET c == contact[1]
              days_since == d - fromisoformat(c.outreach_day0)
              slot7 == days_since >= 6
          IN  Respond([db EXCEPT
                 !.contacts = update_contact(@, contact_id,
                                 IF slot7 THEN [outreach_day7 |-> isoformat(d)]
                                          ELSE [outreach_day3 |-> isoformat(d)]),
                 !.activity_log = log_activity(@, "Follow-Up Sent",
                                 <<IF slot7 THEN "Day 7 follow-up sent to "
                                            ELSE "Day 3 follow-up sent to ", c.full_name>>,
                                 c.opportunity_id, Some(contact_id), None)],
               "302")

----------------------------------------------------------------------------
(* modules/ai_engine.py: the JSON-shaped tasks and the decoder of the
   model's reply.

   Text.  A text is the sequence of its lines (str.split("\n")), a line the
   sequence of its tokens; the token " " is a run of blanks, "FENCE" the
   three backticks of a markdown fence, and the other tokens are the lexemes of a JSON document or words.
   The empty string is the text of one empty line.

   JSON values.  json.loads yields a dict, a list or a scalar; a value is a
   record of its Python type and its content, a dict being a function from
   its keys. *)

EmptyText == << <<>> >>

Blank(line) == \A k \in DOMAIN line : line[k] = " "

\* str.lstrip() / str.rstrip() / str.strip() of one line
RECURSIVE line_lstrip(_)
line_lstrip(line) ==
    IF line # <<>> /\ Head(line) = " " THEN line_lstrip(Tail(line)) ELSE line

RECURSIVE line_rstrip(_)
line_rstrip(line) ==
    IF line # <<>> /\ line[Len(line)] = " "
    THEN line_rstrip(SubSeq(line, 1, Len(line) - 1))
    ELSE line

line_strip(line) == line_rstrip(line_lstrip(line))

\* str.strip() of a text: blank lines and blanks go from both ends.
strip(text) ==
    LET inked == { k \in DOMAIN text : ~Blank(text[k]) }
    IN  IF inked = {}
        THEN EmptyText
        ELSE LET first == CHOOSE k \in inked : \A m \in inked : k <= m
                 final == CHOOSE k \in inked : \A m \in inked : m <= k
             IN  [ k \in 1..(final - first + 1) |->
                     LET line == text[first + k - 1]
                         l == IF k = 1 THEN line_lstrip(line) ELSE line
                     IN  IF first + k - 1 = final THEN line_rstrip(l) ELSE l ]

\* str.startswith of the three backticks
startswith_fence(text) == text[1] # <<>> /\ text[1][1] = "FENCE"

\* "\n".join(lines); joining no line gives the empty string.
join(lines) == IF lines = <<>> THEN EmptyText ELSE lines

\* The documents json.loads accepts, by their lexemes, and their values.
JsonDocs ==
    ( <<"{", "\"fit_score\"", ":", "7", "}">>
          :> [type |-> "dict", value |-> [fit_score |-> 7]] ) @@
    ( <<"{", "\"fit_score\"", ":", "11", "}">>
          :> [type |-> "dict", value |-> [fit_score |-> 11]] ) @@
    ( <<"{", "\"cover_letter\"", ":", "\"Dear\"", "}">>
          :> [type |-> "dict", value |-> [cover_letter |-> "Dear"]] ) @@
    ( <<"{", "\"tailored_resume\"", ":", "\"cv\"", "}">>
          :> [type |-> "dict", value |-> [tailored_resume |-> "cv"]] ) @@
    ( <<"{", "\"score_rationale\"", ":", "\"strong\"", "}">>
          :> [type |-> "dict", value |-> [score_rationale |-> "strong"]] ) @@
    ( <<"{", "\"subject_line\"", ":", "\"Hi\"", "}">>
          :> [type |-> "dict", value |-> [subject_line |-> "Hi"]] ) @@
    ( <<"[", "7", "]">>
          :> [type |-> "list", value |-> <<7>>] ) @@
    ( <<"7">>
          :> [type |-> "int", value |-> 7] )

\* The lexemes of a text: white space between lexemes carries no meaning.
RECURSIVE lexemes(_)
lexemes(text) ==
    IF text = <<>>
    THEN <<>>
    ELSE SelectSeq(Head(text), LAMBDA tok : tok # " ") \o lexemes(Tail(text))

\* json.loads: Some(value), or None for JSONDecodeError.
json_loads(text) ==
    IF lexemes(text) \in DOMAIN JsonDocs THEN Some(JsonDocs[lexemes(text)]) ELSE None

\* json.dumps: the JSON text of a value, kept apart from the value.
json_dumps(value) == [json |-> value]

parse_json_response_KeepsLastLine(text) ==
    LET cleaned == strip(text)
        lines == cleaned
    IN  json_loads(strip(
            IF startswith_fence(cleaned)
            THEN join(SubSeq(lines, 2, Len(lines)))
            ELSE cleaned))

\* _parse_json_response (lines 52-58): Some(value), or None when json.loads
\* raises.
parse_json_response(text) ==
    LET cleaned == strip(text)
        lines == cleaned
    IN  json_loads(strip(
            IF startswith_fence(cleaned)
            THEN IF line_strip(lines[Len(lines)]) = <<"FENCE">>
                 THEN join(SubSeq(lines, 2, Len(lines) - 1))
                 ELSE join(SubSeq(lines, 2, Len(lines)))
            ELSE cleaned))

\* _log_ai_action (lines 38-49)
log_ai_action(db, function_name, opportunity_id) ==
    [db EXCEPT !.activity_log =
        log_activity(@, "AI Action", <<"AI function called: ", function_name>>,
                     opportunity_id, None,
                     Some([function_name |-> function_name]))]

json_task_LogsBeforeParse(db, function_name, opportunity_id, reply) ==
    IF reply.raises
    THEN [db |-> log_ai_action(db, function_name, opportunity_id),
          raised |-> Some("APIError"), result |-> None]
    ELSE LET result == parse_json_response(reply.text)
         IN  IF result = None
             THEN [db |-> log_ai_action(db, function_name, opportunity_id),
                   raised |-> Some("JSONDecodeError"), result |-> None]
             ELSE [db |-> log_ai_action(db, function_name, opportunity_id),
                   raised |-> None, result |-> result]

json_task_LogFailureRaises(db, function_name, opportunity_id, reply) ==
    IF reply.raises
    THEN [db |-> db, raised |-> Some("APIError"), result |-> None]
    ELSE LET result == parse_json_response(reply.text)
         IN  IF result = None
             THEN [db |-> db, raised |-> Some("JSONDecodeError"), result |-> None]
             ELSE IF reply.log_raises
             THEN [db |-> db, raised |-> Some("OperationalError"), result |-> None]
             ELSE [db |-> log_ai_action(db, function_name, opportunity_id),
                   raised |-> None, result |-> result]

\* The body every JSON-shaped task ends with (score_fit lines 90-97):
\* try: call_claude; _parse_json_response; _log_ai_action; return result
\* except: log the error and re-raise.  reply is what the collaborators do
\* during the call: call_claude raises or returns a text, and the store takes
\* the entry of _log_ai_action or raises, which _log_ai_action catches
\* (lines 40-49).
json_task(db, function_name, opportunity_id, reply) ==
    IF reply.raises
    THEN [db |-> db, raised |-> Some("APIError"), result |-> None]
    ELSE LET result == parse_json_response(reply.text)
         IN  IF result = None
             THEN [db |-> db, raised |-> Some("JSONDecodeError"), result |-> None]
             ELSE [db |-> IF reply.log_raises
                          THEN db
                          ELSE log_ai_action(db, function_name, opportunity_id),
                   raised |-> None, result |-> result]

score_fit(db, opportunity_id, reply) ==
    json_task(db, "score_fit", Some(opportunity_id), reply)

generate_tailored_resume(db, opportunity_id, reply) ==
    json_task(db, "generate_tailored_resume", Some(opportunity_id), reply)

generate_cover_letter(db, opportunity_id, reply) ==
    json_task(db, "generate_cover_letter", Some(opportunity_id), reply)

\* draft_outreach logs without an opportunity id (line 169).
draft_outreach(db, reply) ==
    json_task(db, "draft_outreach", None, reply)

\* result[key] raises KeyError on a dict without the key and TypeError on a
\* list or a scalar.
Subscriptable(result, key) ==
    result.type = "dict" /\ key \in DOMAIN result.value

\* result.get(key, ""): AttributeError on a list or a scalar.
dict_get(result, key) ==
    IF key \in DOMAIN result.value THEN result.value[key] ELSE ""

\* The cached resume: None when the file is missing, else its stripped text.
\* Of the texts in use these are shorter than 100 characters.
ShortResumes == {"", "short"}

score_fit_route_Clamps(db, opp_id, resume_text, reply) ==
    LET opp == get_opportunity(db.opportunities, opp_id)
    IN  IF opp = None
        THEN Respond(db, "404")
        ELSE IF ~Truthy(opp[1].jd_raw)
        THEN Respond(db, "400")
        ELSE IF ~Truthy(resume_text)
        THEN Respond(db, "400")
        ELSE
          LET r == score_fit(db, opp_id, reply)
          IN  IF r.raised # None
              THEN Respond(r.db, "500")
              ELSE IF ~Subscriptable(r.result[1], "fit_score")
              THEN Respond(r.db, "500")
              ELSE Respond([r.db EXCEPT !.opportunities =
                              update_opportunity(@, opp_id,
                                  [ fit_score      |->
                                        Some(IF r.result[1].value.fit_score > 10
                                             THEN 10
                                             ELSE r.result[1].value.fit_score),
                                    ai_fit_summary |-> Some(json_dumps(r.result[1])) ])],
                           "200")

\* POST /opportunity/<id>/score-fit
score_fit_route(db, opp_id, resume_text, reply) ==
    LET opp == get_opportunity(db.opportunities, opp_id)
    IN  IF opp = None
        THEN Respond(db, "404")
        ELSE IF ~Truthy(opp[1].jd_raw)
        THEN Respond(db, "400")
        ELSE IF ~Truthy(resume_text)
        THEN Respond(db, "400")
        ELSE
          LET r == score_fit(db, opp_id, reply)
          IN  IF r.raised # None
              THEN Respond(r.db, "500")
              ELSE IF ~Subscriptable(r.result[1], "fit_score")
              THEN Respond(r.db, "500")
              ELSE Respond([r.db EXCEPT !.opportunities =
                              update_opportunity(@, opp_id,
                                  [ fit_score      |-> Some(r.result[1].value.fit_score),
                                    ai_fit_summary |-> Some(json_dumps(r.result[1])) ])],
                           "200")

\* The loop of score_unscored (lines 183-198) over the rows in the order the
\* store returned them; replies[id] is what the model service and the store
\* do on the call for row id.  A raising row is counted and skipped; the
\* log_activity of the loop raises after the row was updated.
RECURSIVE score_unscored_loop(_, _, _)
score_unscored_loop(db, rows, replies) ==
    IF rows = <<>>
    THEN db
    ELSE
      LET opp_id == Head(rows)
          r == score_fit(db, opp_id, replies[opp_id])
          db1 ==
            IF r.raised # None
            THEN r.db
            ELSE IF ~Subscriptable(r.result[1], "fit_score")
            THEN r.db
            ELSE [r.db EXCEPT
                    !.opportunities =
                        update_opportunity(@, opp_id,
                            [ fit_score      |-> Some(r.result[1].value.fit_score),
                              ai_fit_summary |-> Some(json_dumps(r.result[1])) ]),
                    !.activity_log =
                        IF replies[opp_id].log_raises
                        THEN @
                        ELSE log_activity(@, "AI Action",
                               <<"Fit scored (batch): ", r.result[1].value.fit_score, "/10">>,
                               Some(opp_id), None, None)]
      IN  score_unscored_loop(db1, Tail(rows), replies)

\* The rows of the SELECT of score_unscored (line 177).
unscored_rows(db) ==
    { i \in DOMAIN db.opportunities :
        db.opportunities[i].fit_score = None /\ Truthy(db.opportunities[i].jd_raw) }

\* POST /opportunities/score-unscored.  rows lists unscored_rows(db) in the
\* order the store returned them (the SELECT has no ORDER BY).
score_unscored(db, resume_text, rows, replies) ==
    IF ~Truthy(resume_text)
    THEN Respond(db, "400")
    ELSE IF rows = <<>>
    THEN Respond(db, "200")
    ELSE Respond(score_unscored_loop(db, rows, replies), "200")

\* POST /opportunity/<id>/generate-resume
generate_resume_route(db, opp_id, resume_text, reply) ==
    LET opp == get_opportunity(db.opportunities, opp_id)
    IN  IF opp = None
        THEN Respond(db, "404")
        ELSE IF ~Truthy(opp[1].jd_raw)
        THEN Respond(db, "400")
        ELSE IF resume_text = None \/ resume_text[1] \in ShortResumes
        THEN Respond(db, "400")
        ELSE
          LET r == generate_tailored_resume(db, opp_id, reply)
          IN  IF r.raised # None
              THEN Respond(r.db, "500")
              ELSE IF r.result[1].type # "dict"
              THEN Respond(r.db, "500")
              ELSE Respond([r.db EXCEPT !.opportunities =
                              update_opportunity(@, opp_id,
                                  [ tailored_resume |->
                                      Some(dict_get(r.result[1], "tailored_resume")) ])],
                           "200")

\* POST /opportunity/<id>/generate-cover-letter
generate_cover_letter_route(db, opp_id, resume_text, reply) ==
    LET opp == get_opportunity(db.opportunities, opp_id)
    IN  IF opp = None
        THEN Respond(db, "404")
        ELSE IF ~Truthy(opp[1].jd_raw)
        THEN Respond(db, "400")
        ELSE IF resume_text = None \/ resume_text[1] \in ShortResumes
        THEN Respond(db, "400")
        ELSE
          LET r == generate_cover_letter(db, opp_id, reply)
          IN  IF r.raised # None
              THEN Respond(r.db, "500")
              ELSE IF r.result[1].type # "dict"
              THEN Respond(r.db, "500")
              ELSE Respond([r.db EXCEPT !.opportunities =
                              update_opportunity(@, opp_id,
                                  [ cover_letter |->
                                      Some(dict_get(r.result[1], "cover_letter")) ])],
                           "200")

draft_outreach_route_NoHookCheck(db, contact_id, hook, reply) ==
    LET contact == get_contact(db.contacts, contact_id)
    IN  IF contact = None
        THEN Respond(db, "404")
        ELSE
          LET r == draft_outreach(db, reply)
          IN  IF r.raised # None
              THEN Respond(r.db, "500")
              ELSE Respond(r.db, "200")

\* POST /contact/<id>/draft-outreach.  hook is the form field, one line of
\* text; the result is returned to the browser and nothing is stored.
draft_outreach_route(db, contact_id, hook, reply) ==
    LET contact == get_contact(db.contacts, contact_id)
    IN  IF contact = None
        THEN Respond(db, "404")
        ELSE IF line_strip(hook) = <<>>
        THEN Respond(db, "400")
        ELSE
          LET r == draft_outreach(db, reply)
          IN  IF r.raised # None
              THEN Respond(r.db, "500")
              ELSE Respond(r.db, "200")

----------------------------------------------------------------------------
(* Replies of the model service: texts as the service lays them out. *)

\* One line, or one lexeme a line with the inner lines indented.
OneLine(doc) == <<doc>>
Pretty(doc) ==
    [ k \in DOMAIN doc |-> IF 1 < k /\ k < Len(doc) THEN <<" ", doc[k]>> ELSE <<doc[k]>> ]

\* A reply in a markdown fence: opening line, body, closing lines (none when
\* the fence is left open).
Fenced(opening, body, closing) == <<opening>> \o body \o closing

FitDoc == <<"{", "\"fit_score\"", ":", "7", "}">>
LetterDoc == <<"{", "\"cover_letter\"", ":", "\"Dear\"", "}">>
ResumeDoc == <<"{", "\"tailored_resume\"", ":", "\"cv\"", "}">>
RationaleDoc == <<"{", "\"score_rationale\"", ":", "\"strong\"", "}">>
ListDoc == <<"[", "7", "]">>
ScalarDoc == <<"7">>
HighDoc == <<"{", "\"fit_score\"", ":", "11", "}">>
OutreachDoc == <<"{", "\"subject_line\"", ":", "\"Hi\"", "}">>

Prose == << <<"Sorry", " ", "no">> >>

Returns(text) == [raises |-> FALSE, text |-> text, log_raises |-> FALSE]
CallRaises == [raises |-> TRUE, text |-> EmptyText, log_raises |-> FALSE]

\* The service returns a text and the store then refuses the log entry.
LogFails(text) == [raises |-> FALSE, text |-> text, log_raises |-> TRUE]

\* What the service does on a score_fit call of the dashboard at large: a
\* fenced document with the score, a document without it, or prose.
ModelReplies ==
    { Returns(Fenced(<<"FENCE", "json">>, Pretty(FitDoc), << <<"FENCE">> >>)),
      Returns(OneLine(RationaleDoc)),
      Returns(Prose) }

----------------------------------------------------------------------------
(* Requests of the dashboard.  A request names a row by id; the id one past
   the end of a table stands for a row that does not exist. *)

\* The form of the advance route: every stage of the engine's inputs, and an
\* empty new_stage.
WebForms == AdvanceArgs \cup {NoArgs}

BulkRequests ==
    { [opp_ids |-> <<1, 2>>, form |-> [new_stage |-> "Applied", note |-> None, close_reason |-> None]],
      [opp_ids |-> <<1, 1>>, form |-> [new_stage |-> "Closed", note |-> None, close_reason |-> Some("Withdrawn")]],
      [opp_ids |-> <<>>,     form |-> [new_stage |-> "Applied", note |-> None, close_reason |-> None]] }

EmailRequests ==
    { [subject |-> "Hello", body |-> "Hi", email_type |-> "outreach",  smtp_ok |-> TRUE],
      [subject |-> "Hello", body |-> "Hi", email_type |-> "follow-up", smtp_ok |-> TRUE],
      [subject |-> "Hello", body |-> "Hi", email_type |-> "outreach",  smtp_ok |-> FALSE],
      [subject |-> "",      body |-> "Hi", email_type |-> "outreach",  smtp_ok |-> TRUE] }

\* fk matters only for an id with no contact row: both outcomes of the
\* store's foreign-key check on the log entry are drawn.
ResponseRequests ==
    { [status |-> "Responded", fk |-> TRUE],
      [status |-> "Pending",   fk |-> FALSE] }

NoteTexts == {"", "call back"}

ContactForms ==
    { [full_name |-> "Sam", email |-> Some("sam@example.com")],
      [full_name |-> "Sam", email |-> None],
      [full_name |-> "",    email |-> None] }

JobForms ==
    { [company |-> "Acme", role_title |-> "Analyst", jd_raw |-> Some("jd")],
      [company |-> "Acme", role_title |-> "Analyst", jd_raw |-> None],
      [company |-> "",     role_title |-> "Analyst", jd_raw |-> Some("jd")] }

ScoreRequests ==
    { [resume |-> Some("resume"), reply |-> rp] : rp \in ModelReplies }
    \cup { [resume |-> None, reply |-> Returns(Prose)] }

Handled(op, id, args, r) ==
    /\ Commit(r.db)
    /\ last' = [op |-> op, id |-> id, args |-> args, result |-> r.status]
    /\ nreq' = nreq + 1
    /\ UNCHANGED <<today, frames>>

ReqAdvanceOpp ==
    /\ nreq < MaxRequests
    /\ \E id \in 1..(Len(opportunities) + 1), f \in WebForms :
         /\ OnRow(opportunities, id, f, WebForms)
         /\ Handled("advance_opp", id, f, advance_opp(DB, id, f, today))

ReqBulkAdvance ==
    /\ nreq < MaxRequests
    /\ \E b \in BulkRequests :
         Handled("bulk_advance", 0, b, bulk_advance(DB, b.opp_ids, b.form, today))

ReqMarkOutreachSent ==
    /\ nreq < MaxRequests
    /\ \E id \in 1..(Len(contacts) + 1) :
         Handled("mark_outreach_sent", id, NoArgs, mark_outreach_sent(DB, id, today))

ReqSendEmail ==
    /\ nreq < MaxRequests
    /\ \E id \in 1..(Len(contacts) + 1), f \in EmailRequests :
         /\ OnRow(contacts, id, f, EmailRequests)
         /\ Handled("send_email", id, f, send_email_route(DB, id, f, f.smtp_ok, today))

ReqMarkFollowup ==
    /\ nreq < MaxRequests
    /\ \E id \in 1..(Len(contacts) + 1) :
         Handled("mark_followup", id, NoArgs, mark_followup(DB, id, today))

ReqMarkResponse ==
    /\ nreq < MaxRequests
    /\ \E id \in 1..(Len(contacts) + 1), f \in ResponseRequests :
         Handled("mark_response", id, f, mark_response(DB, id, f.status, f.fk))

ReqAddNote ==
    /\ nreq < MaxRequests
    /\ \E id \in 1..(Len(opportunities) + 1), text \in NoteTexts :
         /\ OnRow(opportunities, id, text, NoteTexts \ {""})
         /\ Handled("add_note", id, [note |-> text], add_note(DB, id, text, today))

ReqAddContact ==
    /\ nreq < MaxRequests
    /\ Len(contacts) < MaxContacts
    /\ \E id \in 1..(Len(opportunities) + 1), f \in ContactForms :
         /\ OnRow(opportunities, id, f, ContactForms)
         /\ Handled("add_contact", id, f, add_contact_route(DB, id, f.full_name, f.email))

ReqAddJob ==
    /\ nreq < MaxRequests
    /\ Len(opportunities) < MaxOpps
    /\ \E f \in JobForms :
         Handled("add_job", 0, f, add_job(DB, f.company, f.role_title, f.jd_raw, today))

ReqScoreFit ==
    /\ nreq < MaxRequests
    /\ \E id \in 1..(Len(opportunities) + 1), f \in ScoreRequests :
         /\ OnRow(opportunities, id, f, ScoreRequests)
         /\ Handled("score_fit", id, f, score_fit_route(DB, id, f.resume, f.reply))

\* The calendar moves on between requests.
Tick ==
    /\ nreq < MaxRequests
    /\ NextDay

Next ==
    \/ ReqAddJob
    \/ ReqAddContact
    \/ ReqAdvanceOpp
    \/ ReqBulkAdvance
    \/ ReqMarkOutreachSent
    \/ ReqSendEmail
    \/ ReqMarkFollowup
    \/ ReqMarkResponse
    \/ ReqAddNote
    \/ ReqScoreFit
    \/ Tick

Spec == Init /\ [][Next]_vars

----------------------------------------------------------------------------
----------------------------------------------------------------------------
(* modules/workflow.py get_followup_queue: the contacts due for a follow-up
   on day d.  Stored dates are compared as TEXT with the ISO text of d - 3
   and of d - 7. *)

\* ORDER BY on a column of ISO dates: TEXT order is the order of the days.
DateTextLeq(a, b) == fromisoformat(a) <= fromisoformat(b)

\* The CASE expression of the SELECT list; NULL when no WHEN matches.
followup_reason(outreach_day0, day3, day7) ==
    IF outreach_day0 = day3 THEN Some("Day 3 follow-up due")
    ELSE IF outreach_day0 = day7 THEN Some("Day 7 follow-up due")
    ELSE None

followup_rows_SkipsFollowedUp(db, d) ==
    LET day3 == isoformat(timedelta(d, -3))
        day7 == isoformat(timedelta(d, -7))
    IN  { [ contact_id       |-> c,
            full_name        |-> db.contacts[c].full_name,
            outreach_day0    |-> db.contacts[c].outreach_day0,
            outreach_day3    |-> db.contacts[c].outreach_day3,
            outreach_day7    |-> db.contacts[c].outreach_day7,
            response_status  |-> db.contacts[c].response_status,
            opportunity_id   |-> db.contacts[c].opportunity_id[1],
            stage            |-> db.opportunities[db.contacts[c].opportunity_id[1]].stage,
            followup_reason  |-> followup_reason(db.contacts[c].outreach_day0, day3, day7) ] :
          c \in { c \in DOMAIN db.contacts :
                    /\ db.contacts[c].opportunity_id # None
                    /\ db.contacts[c].opportunity_id[1] \in DOMAIN db.opportunities
                    /\ db.contacts[c].response_status = "Pending"
                    /\ db.contacts[c].outreach_day0 # None
                    /\ ( \/ /\ db.contacts[c].outreach_day0 = day3
                             /\ db.contacts[c].outreach_day3 = None
                         \/ /\ db.contacts[c].outreach_day0 = day7
                             /\ db.contacts[c].outreach_day7 = None )
                    /\ db.opportunities[db.contacts[c].opportunity_id[1]].stage # "Closed" } }

followup_rows_Overdue(db, d) ==
    LET day3 == isoformat(timedelta(d, -3))
        day7 == isoformat(timedelta(d, -7))
    IN  { [ contact_id       |-> c,
            full_name        |-> db.contacts[c].full_name,
            outreach_day0    |-> db.contacts[c].outreach_day0,
            outreach_day3    |-> db.contacts[c].outreach_day3,
            outreach_day7    |-> db.contacts[c].outreach_day7,
            response_status  |-> db.contacts[c].response_status,
            opportunity_id   |-> db.contacts[c].opportunity_id[1],
            stage            |-> db.opportunities[db.contacts[c].opportunity_id[1]].stage,
            followup_reason  |-> followup_reason(db.contacts[c].outreach_day0, day3, day7) ] :
          c \in { c \in DOMAIN db.contacts :
                    /\ db.contacts[c].opportunity_id # None
                    /\ db.contacts[c].opportunity_id[1] \in DOMAIN db.opportunities
                    /\ db.contacts[c].response_status = "Pending"
                    /\ db.contacts[c].outreach_day0 # None
                    /\ DateTextLeq(db.contacts[c].outreach_day0, day3)
                    /\ db.opportunities[db.contacts[c].opportunity_id[1]].stage # "Closed" } }

\* The rows of the SELECT: contacts joined to their opportunity, filtered by
\* the WHERE clause.  A NULL outreach_day0 equals nothing.
followup_rows(db, d) ==
    LET day3 == isoformat(timedelta(d, -3))
        day7 == isoformat(timedelta(d, -7))
    IN  { [ contact_id       |-> c,
            full_name        |-> db.contacts[c].full_name,
            outreach_day0    |-> db.contacts[c].outreach_day0,
            outreach_day3    |-> db.contacts[c].outreach_day3,
            outreach_day7    |-> db.contacts[c].outreach_day7,
            response_status  |-> db.contacts[c].response_status,
            opportunity_id   |-> db.contacts[c].opportunity_id[1],
            stage            |-> db.opportunities[db.contacts[c].opportunity_id[1]].stage,
            followup_reason  |-> followup_reason(db.contacts[c].outreach_day0, day3, day7) ] :
          c \in { c \in DOMAIN db.contacts :
                    /\ db.contacts[c].opportunity_id # None
                    /\ db.contacts[c].opportunity_id[1] \in DOMAIN db.opportunities
                    /\ db.contacts[c].response_status = "Pending"
                    /\ db.contacts[c].outreach_day0 # None
                    /\ ( \/ db.contacts[c].outreach_day0 = day3
                         \/ db.contacts[c].outreach_day0 = day7 )
                    /\ db.opportunities[db.contacts[c].opportunity_id[1]].stage # "Closed" } }

\* Every listing of a set of rows, one entry per row.
Listings(rows) ==
    { q \in [1..Cardinality(rows) -> rows] :
        \A i, j \in DOMAIN q : i # j => q[i] # q[j] }

get_followup_queue_Unordered(db, d) ==
    Listings(followup_rows(db, d))

\* The result list.  ORDER BY c.outreach_day0 ASC leaves the order of rows
\* with equal dates to the store, so the result is any one of the listings
\* in ascending date order.
get_followup_queue(db, d) ==
    { q \in Listings(followup_rows(db, d)) :
        \A i, j \in DOMAIN q :
            i < j => DateTextLeq(q[i].outreach_day0, q[j].outreach_day0) }

----------------------------------------------------------------------------
(* The follow-up cadence over a week and more: two opportunities with one
   contact each, outreach and follow-up marks, responses, closing, and a
   calendar that moves on by one or several days between requests. *)

MaxFollowupSteps == 5
MaxFollowupDay == 8
DaySteps == {1, 3, 4}

\* The store after add_job and add_contact_route for a second opportunity.
FollowupDB ==
    LET db0 == [ opportunities |-> <<InitOpportunity>>,
                 contacts      |-> <<InitContact>>,
                 activity_log  |-> InitLog ]
        db1 == add_job(db0, "Acme", "Analyst", Some("jd"), 0).db
    IN  add_contact_route(db1, 2, "Sam", Some("sam@example.com")).db

InitFollowup ==
    /\ today = 0
    /\ opportunities = FollowupDB.opportunities
    /\ contacts = FollowupDB.contacts
    /\ activity_log = FollowupDB.activity_log
    /\ last = [op |-> "init", id |-> 0, args |-> NoArgs, result |-> "ok"]
    /\ nreq = 0
    /\ frames = <<>>

FuMarkOutreachSent ==
    /\ nreq < MaxFollowupSteps
    /\ \E id \in DOMAIN contacts :
         Handled("mark_outreach_sent", id, NoArgs, mark_outreach_sent(DB, id, today))

FuMarkFollowup ==
    /\ nreq < MaxFollowupSteps
    /\ \E id \in DOMAIN contacts :
         Handled("mark_followup", id, NoArgs, mark_followup(DB, id, today))

FuMarkResponse ==
    /\ nreq < MaxFollowupSteps
    /\ \E id \in DOMAIN contacts :
         Handled("mark_response", id, [status |-> "Responded", fk |-> TRUE],
                 mark_response(DB, id, "Responded", TRUE))

FuClose ==
    /\ nreq < MaxFollowupSteps
    /\ \E id \in DOMAIN opportunities :
         LET f == [new_stage |-> "Closed", note |-> None, close_reason |-> Some("Withdrawn")]
         IN  Handled("advance_opp", id, f, advance_opp(DB, id, f, today))

\* date.today() moves on by one or several days.
FuTick ==
    /\ nreq < MaxFollowupSteps
    /\ \E n \in DaySteps :
         /\ today + n <= MaxFollowupDay
         /\ today' = today + n
    /\ last' = [op |-> "tick", id |-> 0, args |-> NoArgs, result |-> "ok"]
    /\ nreq' = nreq + 1
    /\ UNCHANGED <<opportunities, contacts, activity_log, frames>>

NextFollowup ==
    \/ FuMarkOutreachSent
    \/ FuMarkFollowup
    \/ FuMarkResponse
    \/ FuClose
    \/ FuTick

SpecFollowup == InitFollowup /\ [][NextFollowup]_vars

----------------------------------------------------------------------------
(* modules/workflow.py flag_stale_records.  The column updated_at is kept by
   the store: the code never writes it and only compares it, as TEXT, with
   the ISO text of the cutoff date.  A stored value is NULL, a date <<d>>, or
   a timestamp <<d, t>> ("YYYY-MM-DD HH:MM:SS", t the time of day). *)

DefaultDaysStale == 7

\* TEXT order of dates and timestamps: by date, a date before the timestamps
\* of that date (a proper prefix sorts first), then by time of day.
TextLess(a, b) ==
    \/ a[1] < b[1]
    \/ a[1] = b[1] /\ Len(a) < Len(b)
    \/ a[1] = b[1] /\ Len(a) = 2 /\ Len(b) = 2 /\ a[2] < b[2]

stale_rows_Inclusive(db, days_stale, d) ==
    LET cutoff == isoformat(timedelta(d, -days_stale))
    IN  { [ id               |-> i,
            stage            |-> db.opportunities[i].stage,
            updated_at       |-> db.opportunities[i].updated_at,
            next_action      |-> db.opportunities[i].next_action,
            next_action_date |-> db.opportunities[i].next_action_date ] :
          i \in { i \in DOMAIN db.opportunities :
                    /\ db.opportunities[i].stage # "Closed"
                    /\ db.opportunities[i].updated_at # None
                    /\ ~TextLess(cutoff, db.opportunities[i].updated_at) } }

\* The rows of the SELECT.  NULL < cutoff is not true.
stale_rows(db, days_stale, d) ==
    LET cutoff == isoformat(timedelta(d, -days_stale))
    IN  { [ id               |-> i,
            stage            |-> db.opportunities[i].stage,
            updated_at       |-> db.opportunities[i].updated_at,
            next_action      |-> db.opportunities[i].next_action,
            next_action_date |-> db.opportunities[i].next_action_date ] :
          i \in { i \in DOMAIN db.opportunities :
                    /\ db.opportunities[i].stage # "Closed"
                    /\ db.opportunities[i].updated_at # None
                    /\ TextLess(db.opportunities[i].updated_at, cutoff) } }

\* The result list: any listing in ascending order of updated_at.
flag_stale_records(db, days_stale, d) ==
    { q \in Listings(stale_rows(db, days_stale, d)) :
        \A i, j \in DOMAIN q :
            i < j => ~TextLess(q[j].updated_at, q[i].updated_at) }

----------------------------------------------------------------------------
(* The staleness query applied to stores of two opportunities, open or
   closed, last updated on or around the cutoff dates. *)

MaxStaleDay == 9
MaxStaleCalls == 2

\* Days of the stored updated_at values, and the two times of day.
StampDays == {0, 1, 2}
StampTimes == {0, 1}
Stamps ==
    {None} \cup { <<d>> : d \in StampDays }
           \cup { <<d, t>> : d \in StampDays, t \in StampTimes }

StaleWindows == {DefaultDaysStale, DefaultDaysStale + 1}

\* An opportunity as add_job left it, or closed by advance_stage.
OpenOpportunity == InitOpportunity
ClosedOpportunity ==
    advance_stage([ opportunities |-> <<InitOpportunity>>,
                    contacts      |-> <<>>,
                    activity_log  |-> <<>> ],
                  1, "Closed", None, Some("Withdrawn"), 0).db.opportunities[1]

StampedRows ==
    { ("updated_at" :> s) @@ o : o \in {OpenOpportunity, ClosedOpportunity}, s \in Stamps }

InitStale ==
    /\ today = MaxStaleDay - 1
    /\ opportunities \in [1..MaxOpps -> StampedRows]
    /\ contacts = <<InitContact>>
    /\ activity_log = InitLog
    /\ last = [op |-> "init", id |-> 0, args |-> NoArgs, result |-> "ok"]
    /\ nreq = 0
    /\ frames = <<>>

CallFlagStaleRecords ==
    /\ nreq < MaxStaleCalls
    /\ \E n \in StaleWindows :
         \E q \in flag_stale_records(DB, n, today) :
            last' = [ op |-> "flag_stale_records", id |-> 0,
                      args |-> [days_stale |-> n], result |-> q ]
    /\ nreq' = nreq + 1
    /\ UNCHANGED <<today, opportunities, contacts, activity_log, frames>>

StaleTick ==
    /\ nreq < MaxStaleCalls
    /\ today < MaxStaleDay
    /\ today' = today + 1
    /\ last' = [op |-> "tick", id |-> 0, args |-> NoArgs, result |-> "ok"]
    /\ nreq' = nreq + 1
    /\ UNCHANGED <<opportunities, contacts, activity_log, frames>>

NextStale ==
    \/ CallFlagStaleRecords
    \/ StaleTick

SpecStale == InitStale /\ [][NextStale]_vars

----------------------------------------------------------------------------
(* The decoder applied to JSON documents in every layout and wrapping the
   service uses: bare, padded with blank lines, and inside a markdown fence
   with or without a language tag, closed or left open. *)

JsonLayouts ==
    { [doc |-> d, json |-> OneLine(d)] : d \in DOMAIN JsonDocs }
    \cup { [doc |-> d, json |-> Pretty(d)] : d \in DOMAIN JsonDocs }

Openings == { <<"FENCE">>, <<"FENCE", "json">>, <<" ", "FENCE", "json", " ">> }
Closings == { << <<"FENCE">> >>, << <<"FENCE", " ">>, <<>> >>, <<>> }

DecoderInputs ==
    { [doc |-> j.doc, json |-> j.json, fenced |-> TRUE, text |-> Fenced(o, j.json, c)] :
        j \in JsonLayouts, o \in Openings, c \in Closings }
    \cup { [doc |-> j.doc, json |-> j.json, fenced |-> FALSE, text |-> j.json] :
             j \in JsonLayouts }
    \cup { [doc |-> j.doc, json |-> j.json, fenced |-> FALSE,
            text |-> << <<>> >> \o j.json \o << <<" ">>, <<>> >>] :
             j \in JsonLayouts }

InitDecoder ==
    /\ today = 0
    /\ opportunities = <<InitOpportunity>>
    /\ contacts = <<InitContact>>
    /\ activity_log = InitLog
    /\ \E input \in DecoderInputs :
          last = [op |-> "input", id |-> 0, args |-> input, result |-> None]
    /\ nreq = 0
    /\ frames = <<>>

CallParseJsonResponse ==
    /\ last.op = "input"
    /\ last' = [ op |-> "parse_json_response", id |-> 0, args |-> last.args,
                 result |-> parse_json_response(last.args.text) ]
    /\ nreq' = nreq + 1
    /\ UNCHANGED <<today, opportunities, contacts, activity_log, frames>>

NextDecoder == CallParseJsonResponse

SpecDecoder == InitDecoder /\ [][NextDecoder]_vars

----------------------------------------------------------------------------
(* The AI routes on a store of two opportunities, the second with or without
   a job description: fit scoring of one opportunity and of all unscored
   ones, resume and cover letter generation, against every kind of reply. *)

MaxAiRequests == 2

BrokenReplies == { Returns(Prose), CallRaises }
ShapelessReplies ==
    { Returns(OneLine(RationaleDoc)), Returns(OneLine(ListDoc)), Returns(OneLine(ScalarDoc)) }

ScoreReplies ==
    ModelReplies
    \cup { Returns(OneLine(FitDoc)), Returns(OneLine(HighDoc)), LogFails(OneLine(FitDoc)) }
    \cup ShapelessReplies \cup BrokenReplies
ResumeReplies ==
    { Returns(OneLine(ResumeDoc)), Returns(OneLine(RationaleDoc)), Returns(OneLine(ListDoc)) }
    \cup BrokenReplies
LetterReplies ==
    { Returns(OneLine(LetterDoc)), Returns(OneLine(RationaleDoc)), Returns(OneLine(ListDoc)) }
    \cup BrokenReplies
BatchReplies ==
    { Returns(Fenced(<<"FENCE", "json">>, Pretty(FitDoc), << <<"FENCE">> >>)),
      Returns(OneLine(RationaleDoc)),
      Returns(OneLine(HighDoc)),
      LogFails(OneLine(FitDoc)),
      Returns(Prose) }

\* A request with the cached resume in place, for each reply; one request
\* with the cache missing and one with a resume too short to tailor.
AiRequests(replies) ==
    { [resume |-> Some("resume"), reply |-> rp] : rp \in replies }
    \cup { [resume |-> None, reply |-> CallRaises],
           [resume |-> Some("short"), reply |-> CallRaises] }

\* The store after add_job, with or without a job description, and
\* add_contact_route.
AiDB(jd_raw) ==
    LET db0 == [ opportunities |-> <<InitOpportunity>>,
                 contacts      |-> <<InitContact>>,
                 activity_log  |-> InitLog ]
        db1 == add_job(db0, "Acme", "Analyst", jd_raw, 0).db
    IN  add_contact_route(db1, 2, "Sam", Some("sam@example.com")).db

InitAI ==
    /\ today = 0
    /\ \E jd_raw \in {Some("jd"), None} :
          /\ opportunities = AiDB(jd_raw).opportunities
          /\ contacts = AiDB(jd_raw).contacts
          /\ activity_log = AiDB(jd_raw).activity_log
    /\ last = [op |-> "init", id |-> 0, args |-> NoArgs, result |-> "ok"]
    /\ nreq = 0
    /\ frames = <<>>

AiScoreFit ==
    /\ nreq < MaxAiRequests
    /\ \E id \in 1..(Len(opportunities) + 1), f \in AiRequests(ScoreReplies) :
         /\ OnRow(opportunities, id, f, AiRequests(ScoreReplies))
         /\ Handled("score_fit", id, f, score_fit_route(DB, id, f.resume, f.reply))

AiScoreUnscored ==
    /\ nreq < MaxAiRequests
    /\ \E resume \in {Some("resume"), None} :
       \E rows \in Listings(unscored_rows(DB)) :
       \E replies \in [unscored_rows(DB) -> BatchReplies] :
         /\ resume = None => replies = [i \in unscored_rows(DB) |-> Returns(Prose)]
         /\ Handled("score_unscored", 0,
                    [resume |-> resume, rows |-> rows, replies |-> replies],
                    score_unscored(DB, resume, rows, replies))

AiGenerateResume ==
    /\ nreq < MaxAiRequests
    /\ \E id \in 1..(Len(opportunities) + 1), f \in AiRequests(ResumeReplies) :
         /\ OnRow(opportunities, id, f, AiRequests(ResumeReplies))
         /\ Handled("generate_resume", id, f,
                    generate_resume_route(DB, id, f.resume, f.reply))

\* The hook field empty, blank, or filled in, against a reply that would
\* decode and one that would not.
DraftRequests ==
    { [hook |-> h, reply |-> rp] :
        h \in { <<>>, <<" ">>, <<" ", "alumni", " ">> },
        rp \in { Returns(OneLine(OutreachDoc)), Returns(Prose) } }

AiDraftOutreach ==
    /\ nreq < MaxAiRequests
    /\ \E id \in 1..(Len(contacts) + 1), f \in DraftRequests :
         /\ OnRow(contacts, id, f, DraftRequests)
         /\ Handled("draft_outreach", id, f, draft_outreach_route(DB, id, f.hook, f.reply))

AiGenerateCoverLetter ==
    /\ nreq < MaxAiRequests
    /\ \E id \in 1..(Len(opportunities) + 1), f \in AiRequests(LetterReplies) :
         /\ OnRow(opportunities, id, f, AiRequests(LetterReplies))
         /\ Handled("generate_cover_letter", id, f,
                    generate_cover_letter_route(DB, id, f.resume, f.reply))

NextAI ==
    \/ AiScoreFit
    \/ AiScoreUnscored
    \/ AiGenerateResume
    \/ AiGenerateCoverLetter
    \/ AiDraftOutreach

SpecAI == InitAI /\ [][NextAI]_vars

----------------------------------------------------------------------------
(* Requests as sequences of store statements.  Every call of execute_query
   opens its connection, runs one statement and commits it (db/database.py
   63-84), so a request is a sequence of statements, each atomic, and another
   request's statements, a raised sqlite3.Error or the end of the process can
   come between two of them.  A frame holds the position of one request and
   the values it has read. *)

MaxStepCalls == 2
MaxThreads == 2

Idle ==
    [ pc             |-> "idle",
      stmt           |-> "",
      op             |-> "",
      contact_id     |-> 0,
      contact        |-> None,
      opportunity_id |-> 0,
      opp            |-> None,
      args           |-> NoArgs ]

\* The statements of advance_stage in program order.
advance_stage_then_LogFirst(stmt) ==
    CASE stmt = "get_opportunity"    -> "log_activity"
      [] stmt = "log_activity"       -> "update_opportunity"
      [] stmt = "update_opportunity" -> "return"

advance_stage_then(stmt) ==
    CASE stmt = "get_opportunity"    -> "update_opportunity"
      [] stmt = "update_opportunity" -> "log_activity"
      [] stmt = "log_activity"       -> "return"

\* Request t ends: its outcome is recorded and its frame stays for inspection.
Return(t, result) ==
    /\ frames' = [frames EXCEPT ![t].pc = "done", ![t].stmt = ""]
    /\ last' = [ op     |-> frames[t].op,
                 id     |-> IF frames[t].op = "advance_stage"
                            THEN frames[t].opportunity_id ELSE frames[t].contact_id,
                 args   |-> frames[t].args,
                 result |-> result ]

\* After a statement of advance_stage: its next statement, or back in the caller.
Continue(t, f) ==
    LET then == advance_stage_then(f.stmt)
    IN  IF then # "return"
        THEN frames' = [frames EXCEPT ![t] = [f EXCEPT !.stmt = then]] /\ UNCHANGED last
        ELSE IF f.op = "advance_stage"
        THEN /\ frames' = [frames EXCEPT ![t] = [f EXCEPT !.pc = "done", !.stmt = ""]]
             /\ last' = [op |-> f.op, id |-> f.opportunity_id, args |-> f.args, result |-> "ok"]
        ELSE /\ frames' = [frames EXCEPT ![t] = [f EXCEPT !.pc = "log_activity", !.stmt = ""]]
             /\ UNCHANGED last

\* opp = get_opportunity(opportunity_id); ValueError when there is none.
AdvGetOpportunity ==
    \E t \in DOMAIN frames :
        /\ frames[t].pc = "advance_stage"
        /\ frames[t].stmt = "get_opportunity"
        /\ LET opp == get_opportunity(opportunities, frames[t].opportunity_id)
           IN  IF opp = None
               THEN Return(t, IF frames[t].op = "advance_stage" THEN "ValueError" ELSE "500")
               ELSE Continue(t, [frames[t] EXCEPT !.opp = opp])
        /\ UNCHANGED <<today, opportunities, contacts, activity_log, nreq>>

\* update_opportunity(opportunity_id, **update_kwargs): the one UPDATE.
AdvUpdateOpportunity ==
    \E t \in DOMAIN frames :
        /\ frames[t].pc = "advance_stage"
        /\ frames[t].stmt = "update_opportunity"
        /\ opportunities' =
              update_opportunity(opportunities, frames[t].opportunity_id,
                  update_kwargs(frames[t].opp[1].stage, frames[t].args.new_stage,
                                frames[t].args.close_reason, today))
        /\ Continue(t, frames[t])
        /\ UNCHANGED <<today, contacts, activity_log, nreq>>

\* log_activity("Stage Change", ...) with the stage read at the start.
AdvLogActivity ==
    \E t \in DOMAIN frames :
        /\ frames[t].pc = "advance_stage"
        /\ frames[t].stmt = "log_activity"
        /\ LET f == frames[t]
               old_stage == f.opp[1].stage
               kw == update_kwargs(old_stage, f.args.new_stage, f.args.close_reason, today)
           IN  activity_log' =
                  log_activity(activity_log, "Stage Change",
                      stage_change_description(old_stage, f.args.new_stage, f.args.note),
                      Some(f.opportunity_id), None,
                      stage_change_metadata(old_stage, f.args.new_stage,
                                            kw.next_action_date, today))
        /\ Continue(t, frames[t])
        /\ UNCHANGED <<today, opportunities, contacts, nreq>>

(* A direct caller of advance_stage, one call at a time.  Any statement can
   raise sqlite3.Error, which execute_query logs and re-raises with nothing
   committed, and the process can end between two statements. *)

CallAdvanceStageBegin ==
    /\ nreq < MaxStepCalls
    /\ \E id \in 1..(Len(opportunities) + 1), a \in AdvanceArgs :
         /\ frames[1].pc \in {"idle", "done"}
         /\ OnRow(opportunities, id, a, AdvanceArgs)
         /\ frames' = [frames EXCEPT ![1] =
                          [Idle EXCEPT !.pc = "advance_stage", !.stmt = "get_opportunity",
                                       !.op = "advance_stage",
                                       !.opportunity_id = id, !.args = a]]
    /\ nreq' = nreq + 1
    /\ UNCHANGED <<today, opportunities, contacts, activity_log, last>>

StatementRaises ==
    \E t \in DOMAIN frames :
        /\ frames[t].pc = "advance_stage"
        /\ Return(t, "sqlite3.Error")
        /\ UNCHANGED <<today, opportunities, contacts, activity_log, nreq>>

\* The process ends: what was committed stays, the call in progress is gone.
\* The record keeps the statement the call was about to run.
ProcessEnds ==
    \E t \in DOMAIN frames :
        /\ frames[t].pc = "advance_stage"
        /\ frames' = [u \in DOMAIN frames |-> Idle]
        /\ last' = [ op |-> "crash", id |-> frames[t].opportunity_id,
                     args |-> frames[t].args, result |-> frames[t].stmt ]
        /\ UNCHANGED <<today, opportunities, contacts, activity_log, nreq>>

InitSteps ==
    /\ today = 0
    /\ opportunities = <<InitOpportunity>>
    /\ contacts = <<InitContact>>
    /\ activity_log = InitLog
    /\ last = [op |-> "init", id |-> 0, args |-> NoArgs, result |-> "ok"]
    /\ nreq = 0
    /\ frames = <<Idle>>

NextSteps ==
    \/ CallAdvanceStageBegin
    \/ AdvGetOpportunity
    \/ AdvUpdateOpportunity
    \/ AdvLogActivity
    \/ StatementRaises
    \/ ProcessEnds

SpecSteps == InitSteps /\ [][NextSteps]_vars

(* The threaded server (web/app.py run): each request is handled by its own
   thread, and the statements of two mark_outreach_sent requests interleave
   in every order. *)

ReqMarkOutreachSentBegin ==
    \E t \in DOMAIN frames, id \in DOMAIN contacts :
        /\ frames[t].pc = "idle"
        /\ frames' = [frames EXCEPT ![t] =
                         [Idle EXCEPT !.pc = "get_contact", !.op = "mark_outreach_sent",
                                      !.contact_id = id]]
        /\ nreq' = nreq + 1
        /\ UNCHANGED <<today, opportunities, contacts, activity_log, last>>

\* contact = get_contact(contact_id), and the test of outreach_day0 on the
\* row that was read.
RouteGetContact ==
    \E t \in DOMAIN frames :
        /\ frames[t].pc = "get_contact"
        /\ LET contact == get_contact(contacts, frames[t].contact_id)
           IN  IF contact = None
               THEN Return(t, "404")
               ELSE /\ frames' = [frames EXCEPT
                          ![t].contact = contact,
                          ![t].pc = IF contact[1].outreach_day0 = None
                                    THEN "update_contact" ELSE "log_activity"]
                    /\ UNCHANGED last
        /\ UNCHANGED <<today, opportunities, contacts, activity_log, nreq>>

\* update_contact(contact_id, outreach_day0=today_str)
RouteUpdateContact ==
    \E t \in DOMAIN frames :
        /\ frames[t].pc = "update_contact"
        /\ contacts' = update_contact(contacts, frames[t].contact_id,
                                      [outreach_day0 |-> isoformat(today)])
        /\ frames' = [frames EXCEPT
              ![t].pc = IF frames[t].contact[1].opportunity_id # None
                        THEN "get_opportunity" ELSE "log_activity"]
        /\ UNCHANGED <<today, opportunities, activity_log, last, nreq>>

\* opp = get_opportunity(contact.opportunity_id), and the test of its stage.
RouteGetOpportunity ==
    \E t \in DOMAIN frames :
        /\ frames[t].pc = "get_opportunity"
        /\ LET id == frames[t].contact[1].opportunity_id[1]
               opp == get_opportunity(opportunities, id)
           IN  frames' = [frames EXCEPT ![t] =
                  IF opp # None /\ opp[1].stage = "Prospect"
                  THEN [@ EXCEPT !.pc = "advance_stage", !.stmt = "get_opportunity",
                                 !.opportunity_id = id,
                                 !.args = [ new_stage |-> "Warm Lead",
                                            note |-> Some("Outreach sent"),
                                            close_reason |-> None ]]
                  ELSE [@ EXCEPT !.pc = "log_activity"]]
        /\ UNCHANGED <<today, opportunities, contacts, activity_log, last, nreq>>

\* log_activity("Outreach Sent", ...) and the JSON answer.
RouteLogActivity ==
    \E t \in DOMAIN frames :
        /\ frames[t].pc = "log_activity"
        /\ LET c == frames[t].contact[1]
           IN  activity_log' =
                  log_activity(activity_log, "Outreach Sent",
                      <<"Outreach marked as sent to ", c.full_name>>,
                      c.opportunity_id, Some(frames[t].contact_id), None)
        /\ Return(t, "200")
        /\ UNCHANGED <<today, opportunities, contacts, nreq>>

InitThreads ==
    /\ today = 0
    /\ opportunities = <<InitOpportunity>>
    /\ contacts = <<InitContact>>
    /\ activity_log = InitLog
    /\ last = [op |-> "init", id |-> 0, args |-> NoArgs, result |-> "ok"]
    /\ nreq = 0
    /\ frames = [t \in 1..MaxThreads |-> Idle]

NextThreads ==
    \/ ReqMarkOutreachSentBegin
    \/ RouteGetContact
    \/ RouteUpdateContact
    \/ RouteGetOpportunity
    \/ AdvGetOpportunity
    \/ AdvUpdateOpportunity
    \/ AdvLogActivity
    \/ RouteLogActivity

SpecThreads == InitThreads /\ [][NextThreads]_vars

(* The transition table as the specification states it (section 4.1) *)

TableText ==
    ( "Prospect"         :> "Find contact and send outreach" ) @@
    ( "Warm Lead"        :> "Follow up if no response in 3 days" ) @@
    ( "Applied"          :> "Follow up with contact; check for recruiter screen" ) @@
    ( "Recruiter Screen" :> "Send thank-you; await HM invite" ) @@
    ( "HM Interview"     :> "Send thank-you; prepare for loop" ) @@
    ( "Loop"             :> "Send thank-yous to all interviewers; await decision" ) @@
    ( "Offer Pending"    :> "Review offer; research comp benchmarks" )

TableDays ==
    ( "Prospect" :> 0 ) @@ ( "Warm Lead" :> 3 ) @@ ( "Applied" :> 5 ) @@
    ( "Recruiter Screen" :> 1 ) @@ ( "HM Interview" :> 1 ) @@ ( "Loop" :> 2 ) @@
    ( "Offer Pending" :> 3 )

ExpectedText(stage) ==
    IF stage \in DOMAIN TableText THEN TableText[stage] ELSE "Review and set next step"

\* The entries a step appended to the activity log.
Appended == SubSeq(activity_log', Len(activity_log) + 1, Len(activity_log'))
LogExtended ==
    /\ Len(activity_log') >= Len(activity_log)
    /\ SubSeq(activity_log', 1, Len(activity_log)) = activity_log

StageChanges(log) == { k \in DOMAIN log : log[k].activity_type = "Stage Change" }
LastEntry == activity_log[Len(activity_log)]

\* The step was a direct call advance_stage(id, new_stage, ...), and it returned.
Advanced(i) ==
    /\ last'.op = "advance_stage"
    /\ last'.id = i
    /\ last'.result = "ok"

----------------------------------------------------------------------------
\* The two parts of C1: the stored text follows the stage, and a step that
\* writes next_action or next_action_date is a creation or an advance_stage.

C1_Consistent ==
    \A i \in DOMAIN opportunities :
        opportunities[i].next_action = Some(ExpectedText(opportunities[i].stage))

C1_WrittenOnlyByEngine ==
    \A i \in DOMAIN opportunities' :
        IF i \in DOMAIN opportunities
        THEN ( \/ opportunities'[i].next_action # opportunities[i].next_action
               \/ opportunities'[i].next_action_date # opportunities[i].next_action_date )
             => /\ last'.op \in {"advance_opp", "bulk_advance", "mark_outreach_sent", "send_email"}
                /\ \E k \in DOMAIN Appended :
                      /\ Appended[k].activity_type = "Stage Change"
                      /\ Appended[k].opportunity_id = Some(i)
        ELSE last'.op = "add_job"

(* C1: in every state the web operations reach, each opportunity's
   next_action is the table text of its stage (the generic text for a stage
   outside the table); and next_action / next_action_date of a row are
   written only when it is created by add_job or by an advance_stage call,
   which leaves its "Stage Change" entry for that row in the same step. *)

C1_NextActionFollowsStage == [](C1_Consistent) /\ [][C1_WrittenOnlyByEngine]_vars

\* A note was added to an opportunity resting in a stage outside the table.
C1_Witness ==
    /\ last.op = "add_note"
    /\ last.result = "302"
    /\ last.id \in DOMAIN opportunities
    /\ opportunities[last.id].stage = "On Hold"
    /\ opportunities[last.id].notes # None
    /\ opportunities[last.id].next_action = Some("Review and set next step")

----------------------------------------------------------------------------
(* C2: for every stage S of the transition table and every existing
   opportunity, advance_stage(id, S) leaves stage = S, next_action = the table
   text of S and next_action_date = the call date plus the table offset of S
   (0, 3, 5, 1, 1, 2, 3 days). *)

C2_TableStageSetsDueDate ==
    [][ \A i \in DOMAIN opportunities :
          (Advanced(i) /\ last'.args.new_stage \in DOMAIN TableDays) =>
             LET s == last'.args.new_stage
                 o == opportunities'[i]
             IN  /\ o.stage = s
                 /\ o.next_action = Some(TableText[s])
                 /\ o.next_action_date = isoformat(today + TableDays[s]) ]_vars

\* "Loop" was entered on a later day: due two days after the call.
C2_Witness ==
    /\ last.op = "advance_stage"
    /\ last.result = "ok"
    /\ last.args.new_stage = "Loop"
    /\ today > 0
    /\ opportunities[last.id].stage = "Loop"
    /\ opportunities[last.id].next_action_date = isoformat(today + 2)

----------------------------------------------------------------------------
(* C3: advance_stage never rejects a transition: on an existing opportunity
   in any stage the call returns and sets stage to the requested string, and
   for a string outside the table (including "Closed") it sets next_action =
   "Review and set next step" and next_action_date = call date + 7 days. *)

C3_AnyStageAccepted ==
    [][ \A i \in DOMAIN opportunities :
          (last'.op = "advance_stage" /\ last'.id = i) =>
             LET s == last'.args.new_stage
                 o == opportunities'[i]
             IN  /\ last'.result = "ok"
                 /\ o.stage = s
                 /\ s \notin DOMAIN TableText =>
                       /\ o.next_action = Some("Review and set next step")
                       /\ o.next_action_date = isoformat(today + 7) ]_vars

\* A closed opportunity was moved to a stage that is in no table.
C3_Witness ==
    /\ last.op = "advance_stage"
    /\ last.result = "ok"
    /\ last.args.new_stage = "On Hold"
    /\ LastEntry.metadata[1].old_stage = "Closed"
    /\ opportunities[last.id].stage = "On Hold"
    /\ opportunities[last.id].next_action_date = isoformat(today + 7)

----------------------------------------------------------------------------
(* C4: advance_stage(id, "Applied") called on an opportunity whose latest
   advance was already to "Applied" leaves date_applied as the first call
   stamped it, also on a later day. *)

C4_SecondAppliedKeepsDate ==
    [][ \A i \in DOMAIN opportunities :
          ( /\ Advanced(i)
            /\ last'.args.new_stage = "Applied"
            /\ opportunities[i].stage = "Applied" ) =>
             /\ opportunities[i].date_applied # None
             /\ opportunities'[i].date_applied = opportunities[i].date_applied ]_vars

\* The second call came on a later day than the stamp.
C4_Witness ==
    /\ last.op = "advance_stage"
    /\ last.result = "ok"
    /\ last.args.new_stage = "Applied"
    /\ LastEntry.metadata[1].old_stage = "Applied"
    /\ opportunities[last.id].date_applied # None
    /\ fromisoformat(opportunities[last.id].date_applied) < today

----------------------------------------------------------------------------
(* C5: across any sequence of advance_stage calls, date_applied is written
   once, when the stage first becomes "Applied"; once non-null it never
   changes. *)

C5_DateAppliedWrittenOnce ==
    [][ \A i \in DOMAIN opportunities :
          opportunities[i].date_applied # None =>
             opportunities'[i].date_applied = opportunities[i].date_applied ]_vars

----------------------------------------------------------------------------
(* C6: advance_stage(id, "Closed", close_reason=R) sets date_closed to the
   call date and close_reason to R; no other call writes either column, so
   after later advances to other stages both still hold those values, and
   neither is ever set back to null. *)

C6_ClosedFieldsKept ==
    [][ \A i \in DOMAIN opportunities :
          LET o == opportunities[i]
              o2 == opportunities'[i]
              closing == Advanced(i) /\ last'.args.new_stage = "Closed"
          IN  /\ closing =>
                   /\ o2.date_closed = isoformat(today)
                   /\ Truthy(last'.args.close_reason) =>
                         o2.close_reason = last'.args.close_reason
              /\ (o2.date_closed # o.date_closed \/ o2.close_reason # o.close_reason)
                   => closing
              /\ o.date_closed # None => o2.date_closed # None
              /\ o.close_reason # None => o2.close_reason # None ]_vars

\* Closed as "Accepted" on an earlier day, then advanced to another stage.
C6_Witness ==
    /\ last.op = "advance_stage"
    /\ last.result = "ok"
    /\ last.args.new_stage # "Closed"
    /\ opportunities[last.id].stage # "Closed"
    /\ opportunities[last.id].date_closed # None
    /\ fromisoformat(opportunities[last.id].date_closed) < today
    /\ opportunities[last.id].close_reason = Some("Accepted")

----------------------------------------------------------------------------
(* C7 as claimed: once an opportunity's stage is "Closed", no operation
   changes it to another value. *)

C7_ClosedIsTerminal ==
    [][ \A i \in DOMAIN opportunities :
          opportunities[i].stage = "Closed" => opportunities'[i].stage = "Closed" ]_vars

(* C7 as amended: a "Closed" opportunity leaves that stage only through an
   explicit advance (the advance route or bulk advance), which the engine
   never refuses; mark_outreach_sent, send_email and every other operation
   leave the stage of a "Closed" opportunity as it is. *)

C7_ClosedLeftOnlyByAdvance ==
    [][ \A i \in DOMAIN opportunities :
          (opportunities[i].stage = "Closed" /\ opportunities'[i].stage # "Closed") =>
             /\ last'.op \in {"advance_opp", "bulk_advance"}
             /\ last'.op = "advance_opp" => last'.id = i
             /\ opportunities'[i].stage =
                   (IF last'.op = "advance_opp" THEN last'.args.new_stage
                                                ELSE last'.args.form.new_stage) ]_vars

\* A first outreach was marked for the contact of a closed opportunity.
C7_Witness ==
    /\ last.op \in {"mark_outreach_sent", "send_email"}
    /\ last.result = "200"
    /\ contacts[last.id].outreach_day0 = isoformat(today)
    /\ LastEntry.activity_type = "Outreach Sent"
    /\ activity_log[Len(activity_log) - 1].activity_type = "Stage Change"
    /\ activity_log[Len(activity_log) - 1].metadata[1].new_stage = "Closed"
    /\ opportunities[contacts[last.id].opportunity_id[1]].stage = "Closed"

----------------------------------------------------------------------------
(* C8: advance_stage on an id with no opportunity row fails with the
   not-found error and changes nothing: no opportunity or contact row, and
   no entry appended to the activity log. *)

C8_NotFoundHasNoEffect ==
    [][ (last'.op = "advance_stage" /\ last'.id \notin DOMAIN opportunities) =>
          /\ last'.result = "ValueError"
          /\ opportunities' = opportunities
          /\ contacts' = contacts
          /\ activity_log' = activity_log ]_vars

\* The call named a row past the end of the table, after other calls took effect.
C8_Witness ==
    /\ last.op = "advance_stage"
    /\ last.id \notin DOMAIN opportunities
    /\ last.result = "ValueError"
    /\ StageChanges(activity_log) # {}

----------------------------------------------------------------------------
(* C9: every advance_stage call that returns appends exactly one entry to the
   activity log, of type "Stage Change", for that opportunity, whose metadata
   holds old_stage = the stage stored before the call, new_stage = the stage
   requested and next_action_date = the due date the call wrote to the row;
   also when old_stage = new_stage. *)

C9_OneStageChangeEntry ==
    [][ \A i \in DOMAIN opportunities :
          Advanced(i) =>
             /\ LogExtended
             /\ Len(Appended) = 1
             /\ Appended[1].activity_type = "Stage Change"
             /\ Appended[1].opportunity_id = Some(i)
             /\ Appended[1].metadata =
                   Some([ old_stage        |-> opportunities[i].stage,
                          new_stage        |-> last'.args.new_stage,
                          next_action_date |-> opportunities'[i].next_action_date ]) ]_vars

\* An opportunity was advanced to the stage it was already in, on a later day.
C9_Witness ==
    /\ last.op = "advance_stage"
    /\ last.result = "ok"
    /\ today > 0
    /\ LastEntry.activity_type = "Stage Change"
    /\ LastEntry.metadata[1].old_stage = "Warm Lead"
    /\ LastEntry.metadata[1].new_stage = "Warm Lead"
    /\ LastEntry.metadata[1].next_action_date = isoformat(today + 3)

----------------------------------------------------------------------------
(* C10: for a contact with outreach_day0 unset on a "Prospect" opportunity,
   mark_outreach_sent sets outreach_day0 to today and advances the
   opportunity to "Warm Lead" with one "Stage Change" entry; a later
   mark_outreach_sent for that contact changes no opportunity and no
   contact and adds no "Stage Change" entry, also when the opportunity is
   back in "Prospect". *)

C10_OutreachAdvancesOnce ==
    [][ \A c \in DOMAIN contacts :
          (last'.op = "mark_outreach_sent" /\ last'.id = c) =>
             LET day0 == contacts[c].outreach_day0
                 o == contacts[c].opportunity_id[1]
             IN  /\ (day0 = None /\ opportunities[o].stage = "Prospect") =>
                       /\ contacts'[c].outreach_day0 = isoformat(today)
                       /\ opportunities'[o].stage = "Warm Lead"
                       /\ LogExtended
                       /\ Len(Appended) = 2
                       /\ Appended[1].activity_type = "Stage Change"
                       /\ Appended[1].opportunity_id = Some(o)
                       /\ Appended[1].metadata[1].old_stage = "Prospect"
                       /\ Appended[1].metadata[1].new_stage = "Warm Lead"
                       /\ Appended[2].activity_type = "Outreach Sent"
                 /\ day0 # None =>
                       /\ opportunities' = opportunities
                       /\ contacts' = contacts
                       /\ LogExtended
                       /\ StageChanges(Appended) = {} ]_vars

\* Outreach was marked again after the opportunity went back to "Prospect".
C10_Witness ==
    /\ last.op = "mark_outreach_sent"
    /\ last.result = "200"
    /\ last.id \in DOMAIN contacts
    /\ contacts[last.id].outreach_day0 # None
    /\ opportunities[contacts[last.id].opportunity_id[1]].stage = "Prospect"
    /\ \E k \in StageChanges(activity_log) :
          /\ activity_log[k].metadata[1].old_stage = "Prospect"
          /\ activity_log[k].metadata[1].new_stage = "Warm Lead"
    /\ LastEntry.activity_type = "Outreach Sent"

----------------------------------------------------------------------------
(* C11: a contact's outreach_day0, once set, is never overwritten: no
   mark_outreach_sent, send_email (outreach or follow-up), mark_followup,
   mark_response or any other request changes a non-null outreach_day0; it
   is written only while null, by mark_outreach_sent or an outreach
   send_email, to the date of that request. *)

C11_Day0WrittenOnce ==
    [][ \A c \in DOMAIN contacts :
          LET day0 == contacts[c].outreach_day0
          IN  /\ day0 # None => contacts'[c].outreach_day0 = day0
              /\ (day0 = None /\ contacts'[c].outreach_day0 # None) =>
                    /\ last'.op \in {"mark_outreach_sent", "send_email"}
                    /\ last'.id = c
                    /\ contacts'[c].outreach_day0 = isoformat(today) ]_vars

\* An outreach email went out to a contact whose outreach was marked on an
\* earlier day.
C11_Witness ==
    /\ last.op = "send_email"
    /\ last.result = "200"
    /\ last.args.email_type = "outreach"
    /\ contacts[last.id].outreach_day0 # None
    /\ fromisoformat(contacts[last.id].outreach_day0) < today
    /\ LastEntry.activity_type = "Outreach Sent"

----------------------------------------------------------------------------
(* C12: mark_followup never overwrites a follow-up slot that is set: a
   non-null outreach_day3 (resp. outreach_day7) of a contact is left
   unchanged by every later step, so each slot is written at most once. *)

C12_FollowupSlotWrittenOnce ==
    [][ \A c \in DOMAIN contacts :
          /\ contacts[c].outreach_day3 # None =>
                contacts'[c].outreach_day3 = contacts[c].outreach_day3
          /\ contacts[c].outreach_day7 # None =>
                contacts'[c].outreach_day7 = contacts[c].outreach_day7 ]_vars

----------------------------------------------------------------------------
(* C13: with a calendar that never moves back, in every state reached by
   mark_outreach_sent and mark_followup (and the other requests on
   contacts) the dates of a contact that are present are ordered:
   outreach_day0 <= outreach_day3 <= outreach_day7. *)

DateOrdered(a, b) == (a # None /\ b # None) => fromisoformat(a) <= fromisoformat(b)

C13_SlotsOrdered ==
    \A c \in DOMAIN contacts :
        /\ DateOrdered(contacts[c].outreach_day0, contacts[c].outreach_day3)
        /\ DateOrdered(contacts[c].outreach_day3, contacts[c].outreach_day7)
        /\ DateOrdered(contacts[c].outreach_day0, contacts[c].outreach_day7)
        /\ contacts[c].outreach_day0 = None =>
              contacts[c].outreach_day3 = None /\ contacts[c].outreach_day7 = None

\* The day 7 follow-up was marked for a contact that has all three dates,
\* each later than the one before.
C13_Witness ==
    /\ last.op = "mark_followup"
    /\ contacts[last.id].outreach_day0 # None
    /\ contacts[last.id].outreach_day3 # None
    /\ contacts[last.id].outreach_day7 = isoformat(today)
    /\ fromisoformat(contacts[last.id].outreach_day0) < fromisoformat(contacts[last.id].outreach_day3)
    /\ fromisoformat(contacts[last.id].outreach_day3) < fromisoformat(contacts[last.id].outreach_day7)

----------------------------------------------------------------------------
\* The contact ids a result list of the queue names.
Queued(q) == { q[k].contact_id : k \in DOMAIN q }

\* The condition of C14 on contact c, stated on the day numbers.
FollowupDue(c) ==
    /\ contacts[c].response_status = "Pending"
    /\ contacts[c].outreach_day0 # None
    /\ today - fromisoformat(contacts[c].outreach_day0) \in {3, 7}
    /\ opportunities[contacts[c].opportunity_id[1]].stage # "Closed"

(* C14: the follow-up queue returns a contact if and only if its
   response_status is "Pending", its outreach_day0 is exactly 3 or exactly 7
   days before today, and its opportunity is not "Closed"; it returns each
   such contact once.  So a contact whose day 0 is 4, 5, 6, 8 or more days
   back is not returned, and a contact leaves the queue as soon as its
   opportunity is closed or its response is marked. *)

C14_QueueMembership ==
    \A q \in get_followup_queue(DB, today) :
        /\ \A c \in DOMAIN contacts : c \in Queued(q) <=> FollowupDue(c)
        /\ Len(q) = Cardinality(Queued(q))

\* Three days after both contacts were marked, one opportunity was closed:
\* its contact has left the queue and the other contact is still in it.
C14_Witness ==
    /\ last.op = "advance_opp"
    /\ opportunities[last.id].stage = "Closed"
    /\ \E c, e \in DOMAIN contacts :
          /\ contacts[c].opportunity_id = Some(last.id)
          /\ contacts[c].response_status = "Pending"
          /\ contacts[c].outreach_day0 = isoformat(today - 3)
          /\ contacts[e].outreach_day0 = isoformat(today - 3)
          /\ \A q \in get_followup_queue(DB, today) : Queued(q) = {e}

(* C15: every row the queue returns carries followup_reason
   "Day 3 follow-up due" exactly when its outreach_day0 is today - 3 and
   "Day 7 follow-up due" exactly when it is today - 7, never null; rows come
   in ascending outreach_day0, so every Day 7 row precedes every Day 3 row. *)

C15_ReasonAndOrder ==
    \A q \in get_followup_queue(DB, today) :
        /\ \A k \in DOMAIN q :
              /\ q[k].followup_reason # None
              /\ q[k].followup_reason = Some("Day 3 follow-up due")
                    <=> fromisoformat(q[k].outreach_day0) = today - 3
              /\ q[k].followup_reason = Some("Day 7 follow-up due")
                    <=> fromisoformat(q[k].outreach_day0) = today - 7
        /\ \A i, j \in DOMAIN q :
              i < j => fromisoformat(q[i].outreach_day0) <= fromisoformat(q[j].outreach_day0)
        /\ \A i, j \in DOMAIN q :
              ( /\ q[i].followup_reason = Some("Day 7 follow-up due")
                /\ q[j].followup_reason = Some("Day 3 follow-up due") ) => i < j

\* The queue holds a Day 7 row for the contact with the higher id, and a
\* Day 3 row for the other.
C15_Witness ==
    /\ get_followup_queue(DB, today) # {}
    /\ \A q \in get_followup_queue(DB, today) :
          /\ Len(q) = 2
          /\ q[1].contact_id = 2
          /\ q[1].followup_reason = Some("Day 7 follow-up due")
          /\ q[2].contact_id = 1
          /\ q[2].followup_reason = Some("Day 3 follow-up due")

----------------------------------------------------------------------------
\* The day of a stored date or timestamp.
StampDay(t) == t[1]

\* The condition of C16 on opportunity i for a window of n days.
Stale(i, n) ==
    /\ opportunities[i].stage # "Closed"
    /\ opportunities[i].updated_at # None
    /\ StampDay(opportunities[i].updated_at) < today - n

(* C16: stale_opportunities(days_stale) returns exactly the opportunities
   whose stage is not "Closed" and whose updated_at is strictly earlier than
   today - days_stale, each once, in ascending order of updated_at; an
   opportunity updated on or after the cutoff date, and a "Closed" one, is
   not returned. *)

C16_StaleExactly ==
    last.op = "flag_stale_records" =>
        LET q == last.result
            n == last.args.days_stale
        IN  /\ { q[k].id : k \in DOMAIN q } = { i \in DOMAIN opportunities : Stale(i, n) }
            /\ Len(q) = Cardinality({ q[k].id : k \in DOMAIN q })
            /\ \A k \in DOMAIN q : q[k].updated_at = opportunities[q[k].id].updated_at
            /\ \A i, j \in DOMAIN q :
                  i < j =>
                     /\ StampDay(q[i].updated_at) <= StampDay(q[j].updated_at)
                     /\ ( /\ StampDay(q[i].updated_at) = StampDay(q[j].updated_at)
                          /\ Len(q[i].updated_at) = 2
                          /\ Len(q[j].updated_at) = 2 )
                        => q[i].updated_at[2] <= q[j].updated_at[2]

\* The default window returned the older of two open opportunities and left
\* out one that was updated on the cutoff date.
C16_Witness ==
    /\ last.op = "flag_stale_records"
    /\ last.args.days_stale = DefaultDaysStale
    /\ Len(last.result) = 1
    /\ \E i \in DOMAIN opportunities :
          /\ opportunities[i].stage # "Closed"
          /\ opportunities[i].updated_at # None
          /\ StampDay(opportunities[i].updated_at) = today - DefaultDaysStale
          /\ i # last.result[1].id

----------------------------------------------------------------------------
\* The "AI Action" entries of a log that name opportunity i.
AiActions(log, i) ==
    { k \in DOMAIN log :
        log[k].activity_type = "AI Action" /\ log[k].opportunity_id = Some(i) }

SingleAiRoutes == {"score_fit", "generate_resume", "generate_cover_letter"}

(* C17: when the model's reply is not JSON, or the call to the model raises,
   a JSON-shaped task fails and writes nothing: the single-opportunity
   routes answer with an error and leave opportunities and the activity log
   as they were; the batch route changes no field of an opportunity whose
   call failed so and appends no "AI Action" entry for it. *)

----------------------------------------------------------------------------
(* C18: for every JSON text J the decoder returns J's structure for J alone,
   for J padded with blank lines, and for J inside a markdown fence: an
   opening fence line with or without a language tag, J, and a closing fence
   line or none. *)

C18_FenceIsTransparent ==
    last.op = "parse_json_response" =>
        /\ last.result = Some(JsonDocs[last.args.doc])
        /\ last.result = parse_json_response(last.args.json)

\* A document laid out over several lines was decoded from a fence with a
\* language tag and no closing line.
C18_Witness ==
    /\ last.op = "parse_json_response"
    /\ last.args.fenced
    /\ last.args.text = Fenced(<<"FENCE", "json">>, Pretty(FitDoc), <<>>)
    /\ last.result = Some([type |-> "dict", value |-> [fit_score |-> 7]])

----------------------------------------------------------------------------
(* C19: fit scoring fails whenever the model's reply, although valid JSON,
   has not the expected shape (an object without fit_score, an array, a
   scalar), and then no "AI Action" entry is appended and no opportunity
   field is written. *)

C19_ShapelessReplyWritesNothing ==
    [][ /\ ( /\ last'.op = "score_fit"
             /\ last'.args.reply \in ShapelessReplies ) =>
              /\ last'.result \in {"400", "404", "500"}
              /\ opportunities' = opportunities
              /\ activity_log' = activity_log
        /\ last'.op = "score_unscored" =>
              \A i \in DOMAIN last'.args.replies :
                  last'.args.replies[i] \in ShapelessReplies =>
                     /\ opportunities'[i] = opportunities[i]
                     /\ AiActions(Appended, i) = {} ]_vars

----------------------------------------------------------------------------
(* C20: each successful fit scoring of an opportunity, through the
   single-opportunity route or through the batch route, persists
   ai_fit_summary and appends exactly one "AI Action" entry for that
   opportunity. *)

C20_OneAiActionPerScoring ==
    [][ last'.op \in {"score_fit", "score_unscored"} =>
          \A i \in DOMAIN opportunities :
              opportunities'[i].fit_score # opportunities[i].fit_score =>
                 /\ opportunities'[i].ai_fit_summary # None
                 /\ LogExtended
                 /\ Cardinality(AiActions(Appended, i)) = 1 ]_vars

----------------------------------------------------------------------------
\* The value of the fit_score field of the document a reply carries.
ReturnedFitScore(reply) == parse_json_response(reply.text)[1].value.fit_score

(* C21 as stated: in every reachable state the fit_score of an opportunity
   is null or an integer from 1 to 10, whatever the model service returns. *)

C21_FitScoreInRange ==
    \A i \in DOMAIN opportunities :
        \/ opportunities[i].fit_score = None
        \/ opportunities[i].fit_score[1] \in 1..10

(* C21 amended: the stored fit_score is null until a fit scoring succeeds
   and is then the value of the fit_score field of the model's reply, as it
   came: it is written only by the two fit scoring routes, with no range
   check, and is from 1 to 10 exactly when the returned value is. *)

C21_FitScoreAsReturned ==
    [][ \A i \in DOMAIN opportunities :
          opportunities'[i].fit_score # opportunities[i].fit_score =>
             \/ /\ last'.op = "score_fit"
                /\ last'.id = i
                /\ opportunities'[i].fit_score = Some(ReturnedFitScore(last'.args.reply))
             \/ /\ last'.op = "score_unscored"
                /\ i \in DOMAIN last'.args.replies
                /\ opportunities'[i].fit_score =
                      Some(ReturnedFitScore(last'.args.replies[i])) ]_vars

\* A fit scoring answered with fit_score 11 succeeded and 11 is stored.
C21_Witness ==
    /\ last.op = "score_fit"
    /\ last.result = "200"
    /\ last.args.reply = Returns(OneLine(HighDoc))
    /\ opportunities[last.id].fit_score = Some(11)
    /\ opportunities[last.id].ai_fit_summary # None

----------------------------------------------------------------------------
(* C22: when the append of the "AI Action" entry fails after the model call
   and the parse succeeded, the task still returns the parsed result without
   raising and the caller still persists it: the score-fit route answers 200
   with fit_score and ai_fit_summary stored and the log as it was; the batch
   route stores the fields of that row as well. *)

C22_LogFailureSwallowed ==
    [][ /\ ( /\ last'.op = "score_fit"
             /\ last'.id \in DOMAIN opportunities
             /\ Truthy(opportunities[last'.id].jd_raw)
             /\ last'.args.resume = Some("resume")
             /\ last'.args.reply = LogFails(OneLine(FitDoc)) ) =>
              /\ last'.result = "200"
              /\ opportunities'[last'.id].fit_score = Some(7)
              /\ opportunities'[last'.id].ai_fit_summary =
                    Some(json_dumps([type |-> "dict", value |-> [fit_score |-> 7]]))
              /\ activity_log' = activity_log
        /\ ( /\ last'.op = "score_unscored"
             /\ last'.args.resume = Some("resume") ) =>
              \A i \in DOMAIN last'.args.replies :
                  last'.args.replies[i] = LogFails(OneLine(FitDoc)) =>
                     /\ opportunities'[i].fit_score = Some(7)
                     /\ opportunities'[i].ai_fit_summary # None
                     /\ AiActions(Appended, i) = {} ]_vars

\* A fit scoring succeeded while the store refused the log entry: the score
\* is stored and the log holds no "AI Action" entry for the opportunity.
C22_Witness ==
    /\ last.op = "score_fit"
    /\ last.args.reply = LogFails(OneLine(FitDoc))
    /\ last.result = "200"
    /\ opportunities[last.id].fit_score = Some(7)
    /\ AiActions(activity_log, last.id) = {}

----------------------------------------------------------------------------
(* C23: draft-outreach with an empty or blank hook is rejected before the
   model is called and has no side effect: whatever the model would have
   replied, the answer is 400, no activity-log entry is appended and no
   contact or opportunity changes. *)

C23_EmptyHookRejected ==
    [][ ( /\ last'.op = "draft_outreach"
          /\ last'.id \in DOMAIN contacts
          /\ last'.args.hook \in { <<>>, <<" ">> } ) =>
            /\ last'.result = "400"
            /\ activity_log' = activity_log
            /\ contacts' = contacts
            /\ opportunities' = opportunities ]_vars

\* A draft with a blank hook was rejected although the model would have
\* replied with a well-formed draft.
C23_Witness ==
    /\ last.op = "draft_outreach"
    /\ last.id \in DOMAIN contacts
    /\ last.args.hook = <<" ">>
    /\ last.args.reply = Returns(OneLine(OutreachDoc))
    /\ last.result = "400"
    /\ \A k \in DOMAIN activity_log : activity_log[k].activity_type # "AI Action"

----------------------------------------------------------------------------
(* C24: the activity log is append-only.  Every request leaves the entries
   that were there in place, in order and with the same type, description,
   references and metadata; it can only add entries after them. *)

C24_LogAppendOnly == [][LogExtended]_vars

\* A second stage change of the same opportunity was logged after the
\* first, and both entries are in the log.
C24_Witness ==
    /\ last.op \in {"advance_opp", "bulk_advance"}
    /\ \E j, k \in StageChanges(activity_log) :
          /\ j < k
          /\ activity_log[j].opportunity_id = activity_log[k].opportunity_id
          /\ activity_log[j].metadata # activity_log[k].metadata

----------------------------------------------------------------------------
(* C27: starting from an opportunity saved by add_job in "Prospect", after
   any sequence of advance_stage calls an opportunity in "Closed" has a
   date_closed and an opportunity in "Applied" has a date_applied. *)

C27_StageDatesPresent ==
    \A i \in DOMAIN opportunities :
        /\ opportunities[i].stage = "Closed"  => opportunities[i].date_closed # None
        /\ opportunities[i].stage = "Applied" => opportunities[i].date_applied # None

\* An opportunity was closed and then moved to "Applied" by advance_stage.
C27_Witness ==
    /\ last.op = "advance_stage"
    /\ last.result = "ok"
    /\ last.args.new_stage = "Applied"
    /\ opportunities[last.id].stage = "Applied"
    /\ opportunities[last.id].date_closed # None
    /\ opportunities[last.id].date_applied # None

----------------------------------------------------------------------------
(* C28: when the mail transport raises while send_email handles a request
   that reached it (the contact exists and has an address, subject and body
   are filled in), the answer is an error and nothing is stored: day 0 is
   not set, the stage is not advanced and no entry is logged. *)

C28_TransportFailureLeavesState ==
    [][ ( /\ last'.op = "send_email"
          /\ ~last'.args.smtp_ok
          /\ last'.id \in DOMAIN contacts
          /\ Truthy(contacts[last'.id].email)
          /\ last'.args.subject # "" /\ last'.args.body # "" ) =>
            /\ last'.result = "500"
            /\ contacts' = contacts
            /\ opportunities' = opportunities
            /\ activity_log' = activity_log ]_vars

\* The transport failed on a first outreach mail to a contact of an
\* opportunity in "Prospect": the case where a delivery would have set
\* day 0 and advanced the stage.
C28_Witness ==
    /\ last.op = "send_email"
    /\ ~last.args.smtp_ok
    /\ last.args.email_type = "outreach"
    /\ last.result = "500"
    /\ last.id \in DOMAIN contacts
    /\ contacts[last.id].outreach_day0 = None
    /\ contacts[last.id].opportunity_id # None
    /\ opportunities[contacts[last.id].opportunity_id[1]].stage = "Prospect"

----------------------------------------------------------------------------
(* C29: mark_followup fills the slot that matches the queue's reason.  For a
   contact the queue returns today, mark_followup today sets outreach_day3
   when the reason is "Day 3 follow-up due" and outreach_day7 when it is
   "Day 7 follow-up due", and leaves the other slot alone.  In general the
   slot is outreach_day7 exactly when day 0 is six or more days back and
   outreach_day3 otherwise; a contact with no outreach_day0 gets no write
   and no log entry. *)

C29_SlotMatchesReason ==
    [][ last'.op = "mark_followup" =>
          LET c == last'.id
              stamp == isoformat(today)
          IN  /\ \A q \in get_followup_queue(DB, today) : \A k \in DOMAIN q :
                    q[k].contact_id = c =>
                      /\ q[k].followup_reason = Some("Day 3 follow-up due") =>
                            contacts' = [contacts EXCEPT ![c].outreach_day3 = stamp]
                      /\ q[k].followup_reason = Some("Day 7 follow-up due") =>
                            contacts' = [contacts EXCEPT ![c].outreach_day7 = stamp]
              /\ contacts[c].outreach_day0 # None =>
                    contacts' =
                      IF today - fromisoformat(contacts[c].outreach_day0) >= 6
                      THEN [contacts EXCEPT ![c].outreach_day7 = stamp]
                      ELSE [contacts EXCEPT ![c].outreach_day3 = stamp]
              /\ contacts[c].outreach_day0 = None =>
                    contacts' = contacts /\ activity_log' = activity_log ]_vars

\* The follow-up of a contact queued with the Day 7 reason was marked: its
\* day 7 slot holds today and its day 3 slot is still empty.
C29_Witness ==
    /\ last.op = "mark_followup"
    /\ contacts[last.id].outreach_day0 = isoformat(today - 7)
    /\ contacts[last.id].outreach_day7 = isoformat(today)
    /\ contacts[last.id].outreach_day3 = None
    /\ \A q \in get_followup_queue(DB, today) :
          \E k \in DOMAIN q : /\ q[k].contact_id = last.id
                              /\ q[k].followup_reason = Some("Day 7 follow-up due")

----------------------------------------------------------------------------
(* C30: queue membership does not depend on outreach_day3 or outreach_day7.
   A contact the queue returns before mark_followup is returned with the
   same reason after it on the same day, and a queued contact leaves the
   queue only in a step that changes the date, moves its response_status
   off "Pending" or closes its opportunity. *)

C30_QueueUnaffectedByFollowup ==
    [][ \A q \in get_followup_queue(DB, today) : \A k \in DOMAIN q :
          LET c == q[k].contact_id
              stays == \A p \in get_followup_queue(DB', today') :
                          \E j \in DOMAIN p :
                              /\ p[j].contact_id = c
                              /\ p[j].followup_reason = q[k].followup_reason
          IN  /\ last'.op = "mark_followup" => stays
              /\ ~stays =>
                    \/ today' # today
                    \/ contacts'[c].response_status # "Pending"
                    \/ opportunities'[contacts'[c].opportunity_id[1]].stage = "Closed" ]_vars

\* The follow-up of a contact queued with the Day 3 reason was marked, and
\* the queue still returns the contact.
C30_Witness ==
    /\ last.op = "mark_followup"
    /\ contacts[last.id].outreach_day0 = isoformat(today - 3)
    /\ contacts[last.id].outreach_day3 = isoformat(today)
    /\ \A q \in get_followup_queue(DB, today) :
          \E k \in DOMAIN q : /\ q[k].contact_id = last.id
                              /\ q[k].followup_reason = Some("Day 3 follow-up due")

----------------------------------------------------------------------------
\* The row of the opportunity a call of advance_stage read, with every column
\* of its update applied.
NewRow(f) ==
    update_opportunity(<<f.opp[1]>>, 1,
        update_kwargs(f.opp[1].stage, f.args.new_stage, f.args.close_reason, today))[1]

(* C25: advance_stage changes stage, next_action, next_action_date and the
   stamps that apply in one store write that precedes the log append.  While
   a call is in progress the stored row is the row it read or that row with
   all columns of the update; every step leaves a row as it was or installs
   all columns at once; a "Stage Change" entry is appended only when the
   change it reports is already stored; and a step in which the call fails
   or the process ends changes neither the rows nor the log. *)

C25_UpdateAtomicBeforeLog ==
    [][ /\ \A t \in DOMAIN frames :
              (frames[t].pc = "advance_stage" /\ frames[t].opp # None) =>
                 opportunities[frames[t].opportunity_id]
                    \in { frames[t].opp[1], NewRow(frames[t]) }
        /\ \A i \in DOMAIN opportunities :
              opportunities'[i] # opportunities[i] =>
                 \E t \in DOMAIN frames :
                    /\ frames[t].pc = "advance_stage"
                    /\ frames[t].opportunity_id = i
                    /\ frames[t].opp = Some(opportunities[i])
                    /\ opportunities'[i] = NewRow(frames[t])
        /\ \A k \in DOMAIN Appended :
              Appended[k].activity_type = "Stage Change" =>
                 LET i == Appended[k].opportunity_id[1]
                 IN  /\ opportunities' = opportunities
                     /\ opportunities[i].stage = Appended[k].metadata[1].new_stage
                     /\ opportunities[i].next_action_date
                           = Appended[k].metadata[1].next_action_date
        /\ ( /\ last' # last
             /\ last'.op = "crash" \/ last'.result \in {"sqlite3.Error", "ValueError"} ) =>
                 /\ opportunities' = opportunities
                 /\ activity_log' = activity_log ]_vars

\* The process ended between the UPDATE and the log append of a call that
\* closed an opportunity: the row has all columns of the update and the log
\* has no entry for the change.
C25_Witness ==
    /\ last.op = "crash"
    /\ last.result = "log_activity"
    /\ last.args.new_stage = "Closed"
    /\ last.args.close_reason = Some("Accepted")
    /\ opportunities[last.id].stage = "Closed"
    /\ opportunities[last.id].date_closed = isoformat(today)
    /\ opportunities[last.id].close_reason = Some("Accepted")
    /\ StageChanges(activity_log) = {}

----------------------------------------------------------------------------
\* The "Stage Change" entries that report Prospect -> Warm Lead.
WarmLeadChanges ==
    { k \in StageChanges(activity_log) :
        /\ activity_log[k].metadata[1].old_stage = "Prospect"
        /\ activity_log[k].metadata[1].new_stage = "Warm Lead" }

\* Both requests were mark_outreach_sent for contact 1 and both have answered.
BothAnswered ==
    \A t \in DOMAIN frames :
        /\ frames[t].pc = "done"
        /\ frames[t].op = "mark_outreach_sent"
        /\ frames[t].contact_id = 1

(* C26: under every interleaving of two mark_outreach_sent requests for the
   same contact, whose outreach_day0 is unset and whose opportunity is in
   "Prospect", once both have answered the opportunity is in "Warm Lead"
   and the log holds at most one "Stage Change" entry Prospect -> Warm
   Lead. *)

C26_OneStageChangeUnderRace ==
    BothAnswered =>
        /\ opportunities[1].stage = "Warm Lead"
        /\ Cardinality(WarmLeadChanges) <= 1

====
